---- MODULE Spec2Model ----
(***************************************************************************)
(* Temple donation tracker: the Express server (src/server.js) with its    *)
(* MongoDB collections, and the browser client (the application logic in   *)
(* src/tests/api.test.js from line 315 on) with its session and caches.    *)
(*                                                                         *)
(* Every request handler is one action: the handler runs from the request  *)
(* to the response.  Strings the code only stores and compares are kept as *)
(* strings; donor names are sequences of characters so that trim() and     *)
(* toLowerCase() are computed.  A bcrypt hash of p is the pair <<"h", p>>. *)
(***************************************************************************)
EXTENDS Integers, Sequences, FiniteSets, TLC

\* ------------------------------------------------------------------ bounds
\* Number of requests the server handles in one behaviour.
MaxRequests == 2
\* Longest list of donation records given to the aggregator in SpecAgg.
MaxRecords == 3
\* Longest list of categories the server starts with in SpecOrder.
MaxCategories == 3

\* ------------------------------------------------------- values and inputs
\* A header or a string field that is not present (undefined in the code).
Absent == "absent"
\* A number or date field that is null, and one that is not present.
NullNum == -1
AbsentNum == -2
\* The ObjectId that names no document: a null reference, or an id no
\* document ever had.
NoId == 0
\* A donor name that is not present: the empty string.
NoName == <<>>

\* process.env.ADMIN_USERNAME || 'mandirjan'
adminUsername == "mandirjan"
\* process.env.ADMIN_DEFAULT_PASSWORD || 'admin123'
adminDefaultPassword == "admin123"

\* bcrypt.hash / bcrypt.compare
Hash(p) == <<"h", p>>
Compare(p, h) == h = Hash(p)

\* Date.now(), as a day number; request dates are earlier days.
Now == 9

\* Headers a request can carry: the client's helpers send none of the two.
NoHeaders == [user |-> Absent, userType |-> Absent]
SubHeaders == [user |-> "sub1", userType |-> "subadmin"]
HeaderChoices == {NoHeaders, SubHeaders}

\* Donor names as typed: "Ram", "ram " (trailing blank), "Sita".
NameRam == <<"R", "a", "m">>
NameRamBlank == <<"r", "a", "m", " ">>
NameSita == <<"S", "i", "t", "a">>

\* toLowerCase on one character of the alphabet used here.
LowerChar(c) ==
    CASE c = "R" -> "r" [] c = "S" -> "s" [] c = "H" -> "h" [] c = "A" -> "a"
      [] c = "T" -> "t" [] c = "E" -> "e" [] OTHER -> c

\* String.prototype.toLowerCase
ToLower(s) == [i \in 1..Len(s) |-> LowerChar(s[i])]

\* String.prototype.trim
RECURSIVE TrimLeft(_)
TrimLeft(s) == IF s # <<>> /\ Head(s) = " " THEN TrimLeft(Tail(s)) ELSE s
RECURSIVE TrimRight(_)
TrimRight(s) ==
    IF s # <<>> /\ s[Len(s)] = " " THEN TrimRight(SubSeq(s, 1, Len(s) - 1)) ELSE s
Trim(s) == TrimRight(TrimLeft(s))

\* String.prototype.includes
Contains(s, t) ==
    \E i \in 0..(Len(s) - Len(t)) : SubSeq(s, i + 1, i + Len(t)) = t

\* ------------------------------------------------------------------- state
VARIABLES
    categories,      \* Category collection, in insertion order
    donations,       \* Donation collection, in insertion order
    subAdmins,       \* SubAdmin collection, in insertion order
    settings,        \* the Settings singleton
    log,             \* ActivityLog collection, in insertion order
    logStoreUp,      \* whether ActivityLog.create succeeds right now
    nextId,          \* next fresh ObjectId
    served,          \* number of requests handled so far
    last,            \* the last request and the response it was given
    currentUser,     \* client: the session
    categoriesCache, \* client: categories as last loaded
    donationsCache,  \* client: donations as last loaded (populated)
    settingsCache,   \* client: settings as last loaded
    groupedDonors,   \* client: the aggregates renderPublicView displays
    adminPanel,      \* client: the controls the admin panel shows
    moves,           \* client: the last two calls of moveCategoryUp/Down
    filters,         \* client: the values of the search and filter inputs
    posts,           \* server: the Post collection
    inflight         \* server: the delete requests being handled, each at an await

serverVars == <<categories, donations, subAdmins, settings, log, nextId>>
clientVars == <<currentUser, categoriesCache, donationsCache, settingsCache,
                groupedDonors, adminPanel, moves, filters>>
communityVars == <<posts, inflight>>
vars == <<categories, donations, subAdmins, settings, log, logStoreUp, nextId,
          served, last, currentUser, categoriesCache, donationsCache,
          settingsCache, groupedDonors, adminPanel, moves, filters, posts, inflight>>

\* ------------------------------------------------------- collection reads
\* Model.findById: the position of the document, 0 when there is none.
FindById(coll, id) ==
    IF \E i \in 1..Len(coll) : coll[i].id = id
    THEN CHOOSE i \in 1..Len(coll) : coll[i].id = id
    ELSE 0

\* Model.findByIdAndDelete
DeleteById(coll, id) ==
    LET i == FindById(coll, id)
    IN  IF i = 0 THEN coll ELSE SubSeq(coll, 1, i - 1) \o SubSeq(coll, i + 1, Len(coll))

Ids(coll) == {coll[i].id : i \in 1..Len(coll)}

\* A stable ascending sort of categories on the order key: .sort({ order: 1 })
\* on the server, [...categoriesCache].sort((a, b) => a.order - b.order) on
\* the client.
RECURSIVE InsertByOrder(_, _)
InsertByOrder(c, s) ==
    IF s = <<>> THEN <<c>>
    ELSE IF c.order < Head(s).order THEN <<c>> \o s
    ELSE <<Head(s)>> \o InsertByOrder(c, Tail(s))
RECURSIVE SortByOrder(_)
SortByOrder(s) ==
    IF s = <<>> THEN <<>>
    ELSE InsertByOrder(s[Len(s)], SortByOrder(SubSeq(s, 1, Len(s) - 1)))

\* new Date(x).getTime(): a null date is the epoch.
DateValue(d) == IF d = NullNum THEN 0 ELSE d

\* .sort({ date: -1 }): newest first, equal dates in insertion order.
RECURSIVE InsertByDateDesc(_, _)
InsertByDateDesc(d, s) ==
    IF s = <<>> THEN <<d>>
    ELSE IF DateValue(d.date) > DateValue(Head(s).date) THEN <<d>> \o s
    ELSE <<Head(s)>> \o InsertByDateDesc(d, Tail(s))
RECURSIVE SortByDateDesc(_)
SortByDateDesc(s) ==
    IF s = <<>> THEN <<>>
    ELSE InsertByDateDesc(s[Len(s)], SortByDateDesc(SubSeq(s, 1, Len(s) - 1)))

\* What populate('categoryId') leaves for a reference to no category.
NoCategory == [id |-> NoId, name |-> "", order |-> 0]

\* .populate('categoryId'): the reference replaced by the category document.
Populate(d, cats) ==
    LET i == FindById(cats, d.categoryId)
    IN  [d EXCEPT !.categoryId = IF i = 0 THEN NoCategory ELSE cats[i]]

\* GET /api/categories
GetCategories(cats) == SortByOrder(cats)

\* GET /api/donations without a status filter
GetDonations(dons, cats) ==
    SortByDateDesc([i \in 1..Len(dons) |-> Populate(dons[i], cats)])

\* GET /api/settings
GetSettings(st) == [viewMode |-> st.viewMode]

\* ------------------------------------------------------------ initial data
\* The settings initializeData creates.
InitSettings ==
    [adminPassword |-> Hash(adminDefaultPassword), viewMode |-> "cards",
     communityEnabled |-> FALSE, showDates |-> TRUE]

\* The first default categories initializeData inserts.
InitCategories ==
    << [id |-> 1, name |-> "ram-nagar", order |-> 1],
       [id |-> 2, name |-> "hanuman-marg", order |-> 2] >>

\* The first sample donation initializeData inserts.
InitDonations ==
    << [id |-> 3, donorName |-> NameRam, amount |-> 5, date |-> 1,
        categoryId |-> 1, notes |-> "hall", status |-> "approved"] >>

\* The client before anybody has logged in: currentUser = null.
NoPermissions ==
    [canAddDonation |-> FALSE, canEditDonation |-> FALSE, canDeleteDonation |-> FALSE,
     canManageCategory |-> FALSE, assignedCategories |-> <<>>]
NoUser == [type |-> "none", id |-> NoId, username |-> "", permissions |-> NoPermissions]

\* The paths of the schemas, with the _id and __v Mongoose adds: the fields
\* of a stored document and of its JSON form.
CategoryFields == {"_id", "name", "order", "createdAt", "__v"}
DonationFields ==
    {"_id", "donorName", "amount", "date", "categoryId", "notes", "status",
     "createdAt", "__v"}
SubAdminFields == {"_id", "username", "password", "permissions", "createdAt", "__v"}
PostFields ==
    {"_id", "content", "imageUrl", "ipAddress", "userAgent", "replies", "isVisible",
     "createdAt", "__v"}

\* subAdmin.toObject() sent as it is.
KeepPassword(fields) == fields

\* const result = subAdmin.toObject(); delete result.password
DeletePassword(fields) == fields \ {"password"}

\* .select('-password')
SelectNoPassword(fields) == fields \ {"password"}

\* The fields of each document GET /api/subadmins returns.
GetSubAdminsFields == SelectNoPassword(SubAdminFields)

\* The fields of the JSON value a route sends with a status (for a list of
\* documents, the fields of its documents).
ResponseFields(op, status) ==
    CASE op = "POST login" /\ status = 200 -> {"success", "user"}
      [] op = "POST login" /\ status # 200 -> {"success", "message"}
      [] op = "POST donations" /\ status = 201 -> DonationFields
      [] op \in {"PUT donation", "PUT donation approve"} /\ status = 200 ->
            DonationFields
      [] op = "POST categories" /\ status = 201 -> CategoryFields
      [] op \in {"PUT category", "PUT categories reorder"} /\ status = 200 ->
            CategoryFields
      [] op = "POST subadmins" /\ status = 201 -> DeletePassword(SubAdminFields)
      [] op = "PUT subadmin" /\ status = 200 -> SelectNoPassword(SubAdminFields)
      [] op = "PUT settings" /\ status = 200 -> {"viewMode"}
      [] op = "PUT settings community" /\ status = 200 -> {"communityEnabled"}
      [] op = "PUT settings showDates" /\ status = 200 -> {"showDates"}
      [] op = "POST community" /\ status = 201 -> PostFields
      [] op = "POST community reply" /\ status = 200 -> PostFields
      [] OTHER -> {"message"}

\* The response recorded before any request was made.
NoResponse ==
    [op |-> "none", h |-> NoHeaders, status |-> 0, id |-> NoId, count |-> 0,
     user |-> NoUser, fields |-> {}, content |-> <<>>]

\* A request (its route and the two headers the server reads) with the
\* response it got: the status, the id of the document it is about, the
\* donation count a refused category deletion reports, and the user object
\* of a login response, the fields of the JSON value sent, and the content
\* a community request carried.
Response(op, h, status, id, count) ==
    [op |-> op, h |-> h, status |-> status, id |-> id, count |-> count,
     user |-> NoUser, fields |-> ResponseFields(op, status), content |-> <<>>]

\* ----------------------------------------------------------- activity log
\* createLog putting the new entry first, the order GET /api/logs shows.
createLogNewestFirst(h, action, entity, entityId) ==
    LET user == IF h.user = Absent THEN "admin" ELSE h.user
        userType == IF h.userType = Absent THEN "admin" ELSE h.userType
    IN  IF logStoreUp /\ userType \in {"admin", "subadmin"}
        THEN <<[action |-> action, entity |-> entity, entityId |-> entityId,
                user |-> user, userType |-> userType]>> \o log
        ELSE log

\* createLog: one entry is appended, unless ActivityLog.create throws (the
\* store is down, or userType is outside the schema's enum); the error is
\* swallowed.
createLog(h, action, entity, entityId) ==
    LET user == IF h.user = Absent THEN "admin" ELSE h.user
        userType == IF h.userType = Absent THEN "admin" ELSE h.userType
    IN  IF logStoreUp /\ userType \in {"admin", "subadmin"}
        THEN Append(log, [action |-> action, entity |-> entity, entityId |-> entityId,
                          user |-> user, userType |-> userType])
        ELSE log

\* A request is accepted while the server has handled fewer than MaxRequests.
Serve == served < MaxRequests /\ served' = served + 1

\* --------------------------------------------------------- donation routes
\* !x for a number or a date of a request body.
Falsy(x) == x \in {AbsentNum, NullNum, 0}

\* new Donation(donationData): schema defaults for the fields not given.
NewDonation(id, body, status) ==
    [id |-> id, donorName |-> body.donorName,
     amount |-> IF body.amount = AbsentNum THEN 0 ELSE body.amount,
     date |-> IF body.date = AbsentNum THEN Now ELSE body.date,
     categoryId |-> body.categoryId,
     notes |-> IF body.notes = Absent THEN "" ELSE body.notes,
     status |-> status]

\* findByIdAndUpdate(id, req.body): every field the body gives is set.
UpdateDonation(old, body) ==
    [id |-> old.id,
     donorName |-> IF body.donorName = NoName THEN old.donorName ELSE body.donorName,
     amount |-> IF body.amount = AbsentNum THEN old.amount ELSE body.amount,
     date |-> IF body.date = AbsentNum THEN old.date ELSE body.date,
     categoryId |-> IF body.categoryId = NoId THEN old.categoryId ELSE body.categoryId,
     notes |-> IF body.notes = Absent THEN old.notes ELSE body.notes,
     status |-> IF body.status = Absent THEN old.status ELSE body.status]

\* POST /api/donations
PostDonations(h, body) ==
    LET userType == IF h.userType = Absent THEN "admin" ELSE h.userType
        status == IF userType = "subadmin" THEN "pending" ELSE "approved"
    IN  /\ Serve
        /\ IF userType = "subadmin" /\ (Falsy(body.amount) \/ Falsy(body.date))
           THEN /\ last' = Response("POST donations", h, 400, NoId, 0)
                /\ UNCHANGED <<donations, log, nextId>>
           ELSE IF body.donorName = NoName \/ body.categoryId = NoId
           THEN /\ last' = Response("POST donations", h, 400, NoId, 0)
                /\ UNCHANGED <<donations, log, nextId>>
           ELSE /\ donations' = Append(donations, NewDonation(nextId, body, status))
                /\ nextId' = nextId + 1
                /\ log' = createLog(h, "ADD", "DONATION", nextId)
                /\ last' = Response("POST donations", h, 201, nextId, 0)
        /\ UNCHANGED <<categories, subAdmins, settings, logStoreUp>>

\* PUT /api/donations/:id
PutDonation(h, id, body) ==
    LET i == FindById(donations, id)
    IN  /\ Serve
        /\ IF i = 0
           THEN /\ last' = Response("PUT donation", h, 404, id, 0)
                /\ UNCHANGED <<donations, log>>
           ELSE /\ donations' = [donations EXCEPT ![i] = UpdateDonation(donations[i], body)]
                /\ log' = createLog(h, "EDIT", "DONATION", id)
                /\ last' = Response("PUT donation", h, 200, id, 0)
        /\ UNCHANGED <<categories, subAdmins, settings, logStoreUp, nextId>>

\* PUT /api/donations/:id/approve
ApproveDonation(h, id) ==
    LET i == FindById(donations, id)
    IN  /\ Serve
        /\ IF i = 0
           THEN /\ last' = Response("PUT donation approve", h, 404, id, 0)
                /\ UNCHANGED <<donations, log>>
           ELSE /\ donations' = [donations EXCEPT ![i].status = "approved"]
                /\ log' = createLog(h, "APPROVE", "DONATION", id)
                /\ last' = Response("PUT donation approve", h, 200, id, 0)
        /\ UNCHANGED <<categories, subAdmins, settings, logStoreUp, nextId>>

\* DELETE /api/donations/:id with the failure of createLog reaching the
\* route's catch: 500, nothing deleted.
DeleteDonationLogRequired(h, id) ==
    LET i == FindById(donations, id)
    IN  /\ Serve
        /\ IF i = 0
           THEN /\ last' = Response("DELETE donation", h, 404, id, 0)
                /\ UNCHANGED <<donations, log>>
           ELSE IF ~logStoreUp
           THEN /\ last' = Response("DELETE donation", h, 500, id, 0)
                /\ UNCHANGED <<donations, log>>
           ELSE /\ log' = createLog(h, "DELETE", "DONATION", id)
                /\ donations' = DeleteById(donations, id)
                /\ last' = Response("DELETE donation", h, 200, id, 0)
        /\ UNCHANGED <<categories, subAdmins, settings, logStoreUp, nextId>>

\* DELETE /api/donations/:id
DeleteDonation(h, id) ==
    LET i == FindById(donations, id)
    IN  /\ Serve
        /\ IF i = 0
           THEN /\ last' = Response("DELETE donation", h, 404, id, 0)
                /\ UNCHANGED <<donations, log>>
           ELSE /\ log' = createLog(h, "DELETE", "DONATION", id)
                /\ donations' = DeleteById(donations, id)
                /\ last' = Response("DELETE donation", h, 200, id, 0)
        /\ UNCHANGED <<categories, subAdmins, settings, logStoreUp, nextId>>

\* ------------------------------------------------------------- auth route
\* SubAdmin.findOne({ username }): the position of the first match, or 0.
FindByUsername(coll, username) ==
    IF \E i \in 1..Len(coll) : coll[i].username = username
    THEN CHOOSE i \in 1..Len(coll) :
            /\ coll[i].username = username
            /\ \A j \in 1..(i - 1) : coll[j].username # username
    ELSE 0

\* The login route comparing the admin's password with the hash of the
\* default password instead of the stored one.
LoginAdminDefault(h, username, password) ==
    LET i == FindByUsername(subAdmins, username)
    IN  /\ Serve
        /\ IF password = Absent /\ (username = adminUsername \/ i # 0)
           THEN /\ last' = Response("POST login", h, 500, NoId, 0)
                /\ UNCHANGED log
           ELSE IF username = adminUsername /\ Compare(password, Hash(adminDefaultPassword))
           THEN /\ log' = createLog(h, "LOGIN", "AUTH", NoId)
                /\ last' = [Response("POST login", h, 200, NoId, 0) EXCEPT
                              !.user = [type |-> "admin", id |-> NoId,
                                        username |-> adminUsername,
                                        permissions |-> NoPermissions]]
           ELSE IF i # 0 /\ Compare(password, subAdmins[i].password)
           THEN /\ log' = createLog(h, "LOGIN", "AUTH", subAdmins[i].id)
                /\ last' = [Response("POST login", h, 200, subAdmins[i].id, 0) EXCEPT
                              !.user = [type |-> "subadmin", id |-> subAdmins[i].id,
                                        username |-> subAdmins[i].username,
                                        permissions |-> subAdmins[i].permissions]]
           ELSE /\ log' = createLog(h, "LOGIN_FAILED", "AUTH", NoId)
                /\ last' = Response("POST login", h, 401, NoId, 0)
        /\ UNCHANGED <<categories, donations, subAdmins, settings, logStoreUp, nextId>>

\* POST /api/auth/login.  With no password in the body bcrypt.compare
\* throws as soon as an account is to be compared with, and the catch
\* answers 500.
Login(h, username, password) ==
    LET i == FindByUsername(subAdmins, username)
    IN  /\ Serve
        /\ IF password = Absent /\ (username = adminUsername \/ i # 0)
           THEN /\ last' = Response("POST login", h, 500, NoId, 0)
                /\ UNCHANGED log
           ELSE IF username = adminUsername /\ Compare(password, settings.adminPassword)
           THEN /\ log' = createLog(h, "LOGIN", "AUTH", NoId)
                /\ last' = [Response("POST login", h, 200, NoId, 0) EXCEPT
                              !.user = [type |-> "admin", id |-> NoId,
                                        username |-> adminUsername,
                                        permissions |-> NoPermissions]]
           ELSE IF i # 0 /\ Compare(password, subAdmins[i].password)
           THEN /\ log' = createLog(h, "LOGIN", "AUTH", subAdmins[i].id)
                /\ last' = [Response("POST login", h, 200, subAdmins[i].id, 0) EXCEPT
                              !.user = [type |-> "subadmin", id |-> subAdmins[i].id,
                                        username |-> subAdmins[i].username,
                                        permissions |-> subAdmins[i].permissions]]
           ELSE /\ log' = createLog(h, "LOGIN_FAILED", "AUTH", NoId)
                /\ last' = Response("POST login", h, 401, NoId, 0)
        /\ UNCHANGED <<categories, donations, subAdmins, settings, logStoreUp, nextId>>

\* --------------------------------------------------------- category routes
\* The next order key taken from the number of categories.
NextOrderByCount(cats) == Len(cats) + 1

\* Category.findOne().sort({ order: -1 }), then (maxOrder?.order || 0) + 1
NextOrder(cats) ==
    IF cats = <<>> THEN 1
    ELSE (CHOOSE m \in {cats[i].order : i \in 1..Len(cats)} :
             \A i \in 1..Len(cats) : cats[i].order <= m) + 1

\* POST /api/categories
PostCategories(h, body) ==
    /\ Serve
    /\ IF body.name = Absent
       THEN /\ last' = Response("POST categories", h, 400, NoId, 0)
            /\ UNCHANGED <<categories, log, nextId>>
       ELSE /\ categories' = Append(categories,
                                    [id |-> nextId, name |-> body.name,
                                     order |-> NextOrder(categories)])
            /\ nextId' = nextId + 1
            /\ log' = createLog(h, "ADD", "CATEGORY", nextId)
            /\ last' = Response("POST categories", h, 201, nextId, 0)
    /\ UNCHANGED <<donations, subAdmins, settings, logStoreUp>>

\* PUT /api/categories/:id
PutCategory(h, id, body) ==
    LET i == FindById(categories, id)
    IN  /\ Serve
        /\ IF i = 0
           THEN /\ last' = Response("PUT category", h, 404, id, 0)
                /\ UNCHANGED <<categories, log>>
           ELSE /\ categories' =
                      [categories EXCEPT ![i] =
                          [id |-> id,
                           name |-> IF body.name = Absent THEN @.name ELSE body.name,
                           order |-> IF body.order = AbsentNum THEN @.order ELSE body.order]]
                /\ log' = createLog(h, "EDIT", "CATEGORY", id)
                /\ last' = Response("PUT category", h, 200, id, 0)
        /\ UNCHANGED <<donations, subAdmins, settings, logStoreUp, nextId>>

\* Donation.countDocuments({ categoryId: id })
DonationCount(id) == Cardinality({i \in 1..Len(donations) : donations[i].categoryId = id})

\* DELETE /api/categories/:id without the donation count check.
DeleteCategoryUnchecked(h, id) ==
    LET i == FindById(categories, id)
    IN  /\ Serve
        /\ IF i = 0
           THEN /\ last' = Response("DELETE category", h, 404, id, 0)
                /\ UNCHANGED <<categories, log>>
           ELSE /\ log' = createLog(h, "DELETE", "CATEGORY", id)
                /\ categories' = DeleteById(categories, id)
                /\ last' = Response("DELETE category", h, 200, id, 0)
        /\ UNCHANGED <<donations, subAdmins, settings, logStoreUp, nextId>>

\* DELETE /api/categories/:id
DeleteCategory(h, id) ==
    LET i == FindById(categories, id)
    IN  /\ Serve
        /\ IF DonationCount(id) > 0
           THEN /\ last' = Response("DELETE category", h, 400, id, DonationCount(id))
                /\ UNCHANGED <<categories, log>>
           ELSE IF i = 0
           THEN /\ last' = Response("DELETE category", h, 404, id, 0)
                /\ UNCHANGED <<categories, log>>
           ELSE /\ log' = createLog(h, "DELETE", "CATEGORY", id)
                /\ categories' = DeleteById(categories, id)
                /\ last' = Response("DELETE category", h, 200, id, 0)
        /\ UNCHANGED <<donations, subAdmins, settings, logStoreUp, nextId>>

\* Category.findByIdAndUpdate(item.id, { order: item.order }) for each item.
RECURSIVE ApplyOrders(_, _)
ApplyOrders(cats, orders) ==
    IF orders = <<>> THEN cats
    ELSE LET i == FindById(cats, Head(orders).id)
         IN  ApplyOrders(IF i = 0 THEN cats
                         ELSE [cats EXCEPT ![i].order = Head(orders).order],
                         Tail(orders))

\* The handler registered for PUT /api/categories/reorder, were it reached.
PutCategoriesReorderReached(h, orders) ==
    /\ Serve
    /\ categories' = ApplyOrders(categories, orders)
    /\ last' = Response("PUT categories reorder", h, 200, NoId, 0)
    /\ UNCHANGED <<donations, subAdmins, settings, log, logStoreUp, nextId>>

\* PUT /api/categories/reorder.  The route is registered after
\* PUT /api/categories/:id, which matches the path first with id = 'reorder':
\* findById('reorder') fails to cast, and the catch answers 400.
PutCategoriesReorder(h, orders) ==
    /\ Serve
    /\ last' = Response("PUT categories reorder", h, 400, NoId, 0)
    /\ UNCHANGED <<categories, donations, subAdmins, settings, log, logStoreUp, nextId>>

\* -------------------------------------------------------- sub-admin routes
\* A collection without the unique index: no write is refused.
UsernameTakenNever(username, exceptId) == FALSE

\* The unique index on username: the write is refused (error 11000) when
\* another account holds the name.
UsernameTaken(username, exceptId) ==
    \E i \in 1..Len(subAdmins) :
        subAdmins[i].username = username /\ subAdmins[i].id # exceptId

\* POST /api/subadmins
PostSubAdmins(h, body) ==
    /\ Serve
    /\ IF body.password = Absent \/ body.username = Absent
          \/ UsernameTaken(body.username, NoId)
       THEN /\ last' = Response("POST subadmins", h, 400, NoId, 0)
            /\ UNCHANGED <<subAdmins, log, nextId>>
       ELSE /\ subAdmins' = Append(subAdmins,
                                   [id |-> nextId, username |-> body.username,
                                    password |-> Hash(body.password),
                                    permissions |-> body.permissions])
            /\ nextId' = nextId + 1
            /\ log' = createLog(h, "ADD", "SUBADMIN", nextId)
            /\ last' = Response("POST subadmins", h, 201, nextId, 0)
    /\ UNCHANGED <<categories, donations, settings, logStoreUp>>

\* PUT /api/subadmins/:id
PutSubAdmin(h, id, body) ==
    LET i == FindById(subAdmins, id)
    IN  /\ Serve
        /\ IF i = 0
           THEN /\ last' = Response("PUT subadmin", h, 404, id, 0)
                /\ UNCHANGED <<subAdmins, log>>
           ELSE IF body.username # Absent /\ UsernameTaken(body.username, id)
           THEN /\ last' = Response("PUT subadmin", h, 400, id, 0)
                /\ UNCHANGED <<subAdmins, log>>
           ELSE /\ subAdmins' =
                      [subAdmins EXCEPT ![i] =
                          [id |-> id,
                           username |-> IF body.username = Absent THEN @.username
                                        ELSE body.username,
                           password |-> IF body.password = Absent THEN @.password
                                        ELSE Hash(body.password),
                           permissions |-> body.permissions]]
                /\ log' = createLog(h, "EDIT", "SUBADMIN", id)
                /\ last' = Response("PUT subadmin", h, 200, id, 0)
        /\ UNCHANGED <<categories, donations, settings, logStoreUp, nextId>>

\* DELETE /api/subadmins/:id
DeleteSubAdmin(h, id) ==
    LET i == FindById(subAdmins, id)
    IN  /\ Serve
        /\ IF i = 0
           THEN /\ last' = Response("DELETE subadmin", h, 404, id, 0)
                /\ UNCHANGED <<subAdmins, log>>
           ELSE /\ log' = createLog(h, "DELETE", "SUBADMIN", id)
                /\ subAdmins' = DeleteById(subAdmins, id)
                /\ last' = Response("DELETE subadmin", h, 200, id, 0)
        /\ UNCHANGED <<categories, donations, settings, logStoreUp, nextId>>

\* --------------------------------------------------------- settings routes
\* PUT /api/settings
PutSettings(h, viewMode) ==
    /\ Serve
    /\ settings' = IF viewMode = Absent THEN settings
                   ELSE [settings EXCEPT !.viewMode = viewMode]
    /\ last' = Response("PUT settings", h, 200, NoId, 0)
    /\ UNCHANGED <<categories, donations, subAdmins, log, logStoreUp, nextId>>

\* PUT /api/settings/password
PutSettingsPassword(h, currentPassword, newPassword) ==
    /\ Serve
    /\ IF ~Compare(currentPassword, settings.adminPassword)
       THEN /\ last' = Response("PUT settings password", h, 400, NoId, 0)
            /\ UNCHANGED <<settings, log>>
       ELSE /\ settings' = [settings EXCEPT !.adminPassword = Hash(newPassword)]
            /\ log' = createLog(h, "EDIT", "SETTINGS", NoId)
            /\ last' = Response("PUT settings password", h, 200, NoId, 0)
    /\ UNCHANGED <<categories, donations, subAdmins, logStoreUp, nextId>>

\* PUT /api/settings/community
PutSettingsCommunity(h, enabled) ==
    /\ Serve
    /\ settings' = [settings EXCEPT !.communityEnabled = enabled]
    /\ last' = Response("PUT settings community", h, 200, NoId, 0)
    /\ UNCHANGED <<categories, donations, subAdmins, log, logStoreUp, nextId>>

\* PUT /api/settings/showDates
PutSettingsShowDates(h, showDates) ==
    /\ Serve
    /\ settings' = [settings EXCEPT !.showDates = showDates]
    /\ last' = Response("PUT settings showDates", h, 200, NoId, 0)
    /\ UNCHANGED <<categories, donations, subAdmins, log, logStoreUp, nextId>>

\* -------------------------------------------------------- community routes
\* The list of filterProfanity, in its order.
badWords ==
    << <<"c", "h", "u", "t", "i", "y", "a">>,
       <<"m", "a", "d", "a", "r", "c", "h", "o", "d">>,
       <<"b", "h", "e", "n", "c", "h", "o", "d">>,
       <<"b", "h", "o", "s", "d", "i", "k", "e">>,
       <<"g", "a", "n", "d", "u">>,
       <<"h", "a", "r", "a", "m", "i">>,
       <<"k", "u", "t", "t", "a">>,
       <<"k", "a", "m", "i", "n", "a">>,
       <<"s", "a", "a", "l", "a">>,
       <<"r", "a", "n", "d", "i">>,
       <<"l", "a", "v", "d", "e">>,
       <<"g", "a", "a", "n", "d", "u">>,
       <<"f", "u", "c", "k">>,
       <<"s", "h", "i", "t">>,
       <<"a", "s", "s">>,
       <<"b", "i", "t", "c", "h">>,
       <<"b", "a", "s", "t", "a", "r", "d">>,
       <<"d", "a", "m", "n">>,
       <<"h", "e", "l", "l">>,
       <<"i", "d", "i", "o", "t">>,
       <<"s", "t", "u", "p", "i", "d">>,
       <<"h", "a", "t", "e">>,
       <<"k", "i", "l", "l">>,
       <<"d", "i", "e">>,
       <<"d", "e", "a", "t", "h">> >>

\* filterProfanity without toLowerCase.
filterProfanityCaseSensitive(text) ==
    ~\E k \in 1..Len(badWords) : Contains(text, badWords[k])

\* filterProfanity: TRUE for clean content.
filterProfanity(text) ==
    LET lowerText == ToLower(text)
    IN  ~\E k \in 1..Len(badWords) : Contains(lowerText, badWords[k])

\* maxLength of postSchema.content and of its replies' content.
MaxPostLength == 500
MaxReplyLength == 300

\* POST /api/community.  An absent content is the empty one.
PostCommunity(h, content) ==
    /\ Serve
    /\ IF ~settings.communityEnabled
       THEN /\ last' = [Response("POST community", h, 403, NoId, 0) EXCEPT !.content = content]
            /\ UNCHANGED <<posts, nextId>>
       ELSE IF \/ content = <<>> \/ Len(Trim(content)) = 0
               \/ Len(content) > MaxPostLength
               \/ ~filterProfanity(content)
       THEN /\ last' = [Response("POST community", h, 400, NoId, 0) EXCEPT !.content = content]
            /\ UNCHANGED <<posts, nextId>>
       ELSE /\ posts' = Append(posts, [id |-> nextId, content |-> Trim(content),
                                       replies |-> <<>>, isVisible |-> TRUE])
            /\ nextId' = nextId + 1
            /\ last' = [Response("POST community", h, 201, nextId, 0) EXCEPT !.content = content]
    /\ UNCHANGED <<categories, donations, subAdmins, settings, log, logStoreUp>>

\* POST /api/community/:id/reply
PostCommunityReply(h, id, content) ==
    LET i == FindById(posts, id)
    IN  /\ Serve
        /\ IF ~settings.communityEnabled
           THEN /\ last' = [Response("POST community reply", h, 403, id, 0) EXCEPT !.content = content]
                /\ UNCHANGED posts
           ELSE IF \/ content = <<>> \/ Len(Trim(content)) = 0
                   \/ Len(content) > MaxReplyLength
                   \/ ~filterProfanity(content)
           THEN /\ last' = [Response("POST community reply", h, 400, id, 0) EXCEPT !.content = content]
                /\ UNCHANGED posts
           ELSE IF i = 0
           THEN /\ last' = [Response("POST community reply", h, 404, id, 0) EXCEPT !.content = content]
                /\ UNCHANGED posts
           ELSE /\ posts' = [posts EXCEPT ![i].replies = Append(@, Trim(content))]
                /\ last' = [Response("POST community reply", h, 200, id, 0) EXCEPT !.content = content]
        /\ UNCHANGED <<categories, donations, subAdmins, settings, log, logStoreUp,
                       nextId>>

\* DELETE /api/community/:id
DeleteCommunityPost(h, id) ==
    /\ Serve
    /\ IF FindById(posts, id) = 0
       THEN /\ last' = Response("DELETE community", h, 404, id, 0)
            /\ UNCHANGED posts
       ELSE /\ posts' = DeleteById(posts, id)
            /\ last' = Response("DELETE community", h, 200, id, 0)
    /\ UNCHANGED <<categories, donations, subAdmins, settings, log, logStoreUp, nextId>>

\* ActivityLog.create starts or stops failing (the audit store's condition
\* is outside the program's control).
AuditStoreChanges ==
    /\ logStoreUp' = ~logStoreUp
    /\ UNCHANGED <<categories, donations, subAdmins, settings, log, nextId, served, last>>

\* ---------------------------------------------------- client: permissions
\* canUserAdd without the admin shortcut.
canUserAddFlagOnly(u) ==
    IF u = NoUser THEN FALSE ELSE u.permissions.canAddDonation

\* canUserAdd
canUserAdd(u) ==
    IF u = NoUser THEN FALSE
    ELSE IF u.type = "admin" THEN TRUE
    ELSE u.permissions.canAddDonation

\* canUserEdit reading the flag of canUserAdd.
canUserEditWrongFlag(u) ==
    IF u = NoUser THEN FALSE
    ELSE IF u.type = "admin" THEN TRUE
    ELSE u.permissions.canAddDonation

\* canUserEdit
canUserEdit(u) ==
    IF u = NoUser THEN FALSE
    ELSE IF u.type = "admin" THEN TRUE
    ELSE u.permissions.canEditDonation

\* canUserDelete
canUserDelete(u) ==
    IF u = NoUser THEN FALSE
    ELSE IF u.type = "admin" THEN TRUE
    ELSE u.permissions.canDeleteDonation

\* canUserManageCategory
canUserManageCategory(u) ==
    IF u = NoUser THEN FALSE
    ELSE IF u.type = "admin" THEN TRUE
    ELSE u.permissions.canManageCategory

\* Array.prototype.includes
Includes(arr, x) == \E i \in 1..Len(arr) : arr[i] = x

\* canUserAccessCategory without the rule that an empty list grants all.
canUserAccessCategoryListedOnly(u, categoryId) ==
    IF u = NoUser THEN FALSE
    ELSE IF u.type = "admin" THEN TRUE
    ELSE Includes(u.permissions.assignedCategories, categoryId)

\* canUserAccessCategory
canUserAccessCategory(u, categoryId) ==
    IF u = NoUser THEN FALSE
    ELSE IF u.type = "admin" THEN TRUE
    ELSE Len(u.permissions.assignedCategories) = 0
         \/ Includes(u.permissions.assignedCategories, categoryId)

\* ----------------------------------------------------- client: aggregation
\* d.categoryId?._id || d.categoryId || 'unknown', NoId standing for 'unknown'.
CatId(d) == IF d.categoryId = NoCategory THEN NoId ELSE d.categoryId.id

\* The grouping key without toLowerCase.
NameKeyCaseSensitive(d) == <<Trim(d.donorName), CatId(d)>>

\* The grouping key: the trimmed lower-case name, '_', the category id.
NameKey(d) == <<ToLower(Trim(d.donorName)), CatId(d)>>

\* d.amount || 0
AmountOrZero(a) == IF a = NullNum THEN 0 ELSE a

\* The position of the group with this key, 0 when there is none.
GroupIndex(grouped, key) ==
    IF \E i \in 1..Len(grouped) : grouped[i].key = key
    THEN CHOOSE i \in 1..Len(grouped) : grouped[i].key = key
    ELSE 0

\* The forEach body with the amount assigned instead of added.
GroupOneOverwrite(grouped, d) ==
    LET key == NameKey(d)
        i == GroupIndex(grouped, key)
        g == IF i # 0 THEN grouped
             ELSE Append(grouped,
                         [key |-> key, donorName |-> Trim(d.donorName), amount |-> 0,
                          history |-> <<>>, categoryId |-> d.categoryId,
                          date |-> d.date, notes |-> d.notes, id |-> d.id])
        j == IF i # 0 THEN i ELSE Len(g)
        amount == AmountOrZero(d.amount)
    IN  [g EXCEPT ![j] =
            [@ EXCEPT !.amount = amount,
                      !.date = IF DateValue(d.date) > DateValue(@) THEN d.date ELSE @,
                      !.history = Append(@, [amount |-> amount, date |-> d.date,
                                             notes |-> d.notes])]]

\* The forEach body with the notes taken from every record in turn.
GroupOneLastNotes(grouped, d) ==
    LET key == NameKey(d)
        i == GroupIndex(grouped, key)
        g == IF i # 0 THEN grouped
             ELSE Append(grouped,
                         [key |-> key, donorName |-> Trim(d.donorName), amount |-> 0,
                          history |-> <<>>, categoryId |-> d.categoryId,
                          date |-> d.date, notes |-> d.notes, id |-> d.id])
        j == IF i # 0 THEN i ELSE Len(g)
        amount == AmountOrZero(d.amount)
    IN  [g EXCEPT ![j] =
            [@ EXCEPT !.amount = @ + amount,
                      !.notes = d.notes,
                      !.date = IF DateValue(d.date) > DateValue(@) THEN d.date ELSE @,
                      !.history = Append(@, [amount |-> amount, date |-> d.date,
                                             notes |-> d.notes])]]

\* One pass of the forEach body of groupDonationsByName.
GroupOne(grouped, d) ==
    LET key == NameKey(d)
        i == GroupIndex(grouped, key)
        g == IF i # 0 THEN grouped
             ELSE Append(grouped,
                         [key |-> key, donorName |-> Trim(d.donorName), amount |-> 0,
                          history |-> <<>>, categoryId |-> d.categoryId,
                          date |-> d.date, notes |-> d.notes, id |-> d.id])
        j == IF i # 0 THEN i ELSE Len(g)
        amount == AmountOrZero(d.amount)
    IN  [g EXCEPT ![j] =
            [@ EXCEPT !.amount = @ + amount,
                      !.date = IF DateValue(d.date) > DateValue(@) THEN d.date ELSE @,
                      !.history = Append(@, [amount |-> amount, date |-> d.date,
                                             notes |-> d.notes])]]

RECURSIVE GroupAll(_, _)
GroupAll(grouped, dons) ==
    IF dons = <<>> THEN grouped ELSE GroupAll(GroupOne(grouped, Head(dons)), Tail(dons))

\* groupDonationsByName: Object.values(grouped), in insertion order of the keys.
groupDonationsByName(dons) == GroupAll(<<>>, dons)

\* Array.prototype.filter on d.status === 'approved'
RECURSIVE ApprovedOnly(_)
ApprovedOnly(dons) ==
    IF dons = <<>> THEN <<>>
    ELSE IF Head(dons).status = "approved"
         THEN <<Head(dons)>> \o ApprovedOnly(Tail(dons))
         ELSE ApprovedOnly(Tail(dons))

\* Array.prototype.filter on the category of an aggregate.
RECURSIVE OfCategory(_, _)
OfCategory(aggs, c) ==
    IF aggs = <<>> THEN <<>>
    ELSE IF CatId(Head(aggs)) = c
         THEN <<Head(aggs)>> \o OfCategory(Tail(aggs), c)
         ELSE OfCategory(Tail(aggs), c)

\* sort((a, b) => b.amount - a.amount): stable, descending by amount.
RECURSIVE InsertByAmountDesc(_, _)
InsertByAmountDesc(a, s) ==
    IF s = <<>> THEN <<a>>
    ELSE IF Head(s).amount >= a.amount THEN <<Head(s)>> \o InsertByAmountDesc(a, Tail(s))
    ELSE <<a>> \o s
RECURSIVE SortByAmountDesc(_)
SortByAmountDesc(s) ==
    IF s = <<>> THEN <<>>
    ELSE InsertByAmountDesc(s[Len(s)], SortByAmountDesc(SubSeq(s, 1, Len(s) - 1)))

\* The sections of the public view: for each category in ascending order,
\* its aggregates by descending amount.
RECURSIVE CategorySections(_, _)
CategorySections(aggs, cats) ==
    IF cats = <<>> THEN <<>>
    ELSE SortByAmountDesc(OfCategory(aggs, Head(cats).id))
         \o CategorySections(aggs, Tail(cats))

\* ------------------------------------------------- client: search, filters
\* A Devanagari name is the sequence of its code points, each written
\* "Uxxxx"; Latin text is the sequence of its letters.  The name "श्री राम".
NameShriRam == <<"U0936", "U094D", "U0930", "U0940", " ", "U0930", "U093E", "U092E">>

\* The map of transliterateHindiToEnglish, in the order Object.entries
\* gives its entries: the order they are written in.
TranslitMap ==
    <<
       <<<<"U0905">>, <<"a">>>>,
       <<<<"U0906">>, <<"a", "a">>>>,
       <<<<"U0907">>, <<"i">>>>,
       <<<<"U0908">>, <<"e", "e">>>>,
       <<<<"U0909">>, <<"u">>>>,
       <<<<"U090A">>, <<"o", "o">>>>,
       <<<<"U090F">>, <<"e">>>>,
       <<<<"U0910">>, <<"a", "i">>>>,
       <<<<"U0913">>, <<"o">>>>,
       <<<<"U0914">>, <<"a", "u">>>>,
       <<<<"U0905", "U0902">>, <<"a", "n">>>>,
       <<<<"U0905", "U0903">>, <<"a", "h">>>>,
       <<<<"U0915">>, <<"k">>>>,
       <<<<"U0916">>, <<"k", "h">>>>,
       <<<<"U0917">>, <<"g">>>>,
       <<<<"U0918">>, <<"g", "h">>>>,
       <<<<"U0919">>, <<"n", "g">>>>,
       <<<<"U091A">>, <<"c", "h">>>>,
       <<<<"U091B">>, <<"c", "h", "h">>>>,
       <<<<"U091C">>, <<"j">>>>,
       <<<<"U091D">>, <<"j", "h">>>>,
       <<<<"U091E">>, <<"n", "y">>>>,
       <<<<"U091F">>, <<"t">>>>,
       <<<<"U0920">>, <<"t", "h">>>>,
       <<<<"U0921">>, <<"d">>>>,
       <<<<"U0922">>, <<"d", "h">>>>,
       <<<<"U0923">>, <<"n">>>>,
       <<<<"U0924">>, <<"t">>>>,
       <<<<"U0925">>, <<"t", "h">>>>,
       <<<<"U0926">>, <<"d">>>>,
       <<<<"U0927">>, <<"d", "h">>>>,
       <<<<"U0928">>, <<"n">>>>,
       <<<<"U092A">>, <<"p">>>>,
       <<<<"U092B">>, <<"p", "h">>>>,
       <<<<"U092C">>, <<"b">>>>,
       <<<<"U092D">>, <<"b", "h">>>>,
       <<<<"U092E">>, <<"m">>>>,
       <<<<"U092F">>, <<"y">>>>,
       <<<<"U0930">>, <<"r">>>>,
       <<<<"U0932">>, <<"l">>>>,
       <<<<"U0935">>, <<"v">>>>,
       <<<<"U0936">>, <<"s", "h">>>>,
       <<<<"U0937">>, <<"s", "h">>>>,
       <<<<"U0938">>, <<"s">>>>,
       <<<<"U0939">>, <<"h">>>>,
       <<<<"U093E">>, <<"a">>>>,
       <<<<"U093F">>, <<"i">>>>,
       <<<<"U0940">>, <<"e", "e">>>>,
       <<<<"U0941">>, <<"u">>>>,
       <<<<"U0942">>, <<"o", "o">>>>,
       <<<<"U0947">>, <<"e">>>>,
       <<<<"U0948">>, <<"a", "i">>>>,
       <<<<"U094B">>, <<"o">>>>,
       <<<<"U094C">>, <<"a", "u">>>>,
       <<<<"U0902">>, <<"n">>>>,
       <<<<"U0903">>, <<"h">>>>,
       <<<<"U094D">>, <<>>>>,
       <<<<"U0943">>, <<"r", "i">>>>,
       <<<<"U0936", "U094D", "U0930", "U0940">>, <<"s", "h", "r", "i">>>>,
       <<<<"U0930", "U093E", "U092E">>, <<"r", "a", "m">>>>,
       <<<<"U0915", "U0943", "U0937", "U094D", "U0923">>, <<"k", "r", "i", "s", "h", "n", "a">>>>,
       <<<<"U0939", "U0928", "U0941", "U092E", "U093E", "U0928">>, <<"h", "a", "n", "u", "m", "a", "n">>>>,
       <<<<"U092A", "U094D", "U0930", "U0938", "U093E", "U0926">>, <<"p", "r", "a", "s", "a", "d">>>>,
       <<<<"U0915", "U0941", "U092E", "U093E", "U0930">>, <<"k", "u", "m", "a", "r">>>>,
       <<<<"U0938", "U093F", "U0902", "U0939">>, <<"s", "i", "n", "g", "h">>>>,
       <<<<"U0936", "U0930", "U094D", "U092E", "U093E">>, <<"s", "h", "a", "r", "m", "a">>>>,
       <<<<"U0917", "U0941", "U092A", "U094D", "U0924", "U093E">>, <<"g", "u", "p", "t", "a">>>>,
       <<<<"U092F", "U093E", "U0926", "U0935">>, <<"y", "a", "d", "a", "v">>>>,
       <<<<"U092A", "U093E", "U0923", "U094D", "U0921", "U0947", "U092F">>, <<"p", "a", "n", "d", "e", "y">>>>,
       <<<<"U092E", "U093F", "U0936", "U094D", "U0930", "U093E">>, <<"m", "i", "s", "h", "r", "a">>>>
    >>

\* result.replace(new RegExp(hindi, 'g'), eng): every occurrence, from the
\* left, without overlap.
RECURSIVE ReplaceAll(_, _, _)
ReplaceAll(text, hindi, eng) ==
    IF Len(text) < Len(hindi) THEN text
    ELSE IF SubSeq(text, 1, Len(hindi)) = hindi
         THEN eng \o ReplaceAll(SubSeq(text, Len(hindi) + 1, Len(text)), hindi, eng)
         ELSE <<Head(text)>> \o ReplaceAll(Tail(text), hindi, eng)

\* The for loop over the entries lo..hi of the map, in their order: those
\* of the first half, then on their result those of the second half (in
\* an empty text there is nothing left to replace).
RECURSIVE ReplaceEntries(_, _, _)
ReplaceEntries(result, lo, hi) ==
    IF lo > hi THEN result
    ELSE IF lo = hi
         THEN ReplaceAll(result, TranslitMap[lo][1], TranslitMap[lo][2])
         ELSE LET mid == (lo + hi) \div 2
                  half == ReplaceEntries(result, lo, mid)
              IN  IF half = <<>> THEN half ELSE ReplaceEntries(half, mid + 1, hi)

\* transliterateHindiToEnglish
transliterateHindiToEnglish(text) ==
    ToLower(ReplaceEntries(text, 1, Len(TranslitMap)))

\* The predicate of the search filter on one aggregate.
SearchMatches(d, term) ==
    LET donorLower == ToLower(d.donorName)
    IN  \/ Contains(donorLower, term)
        \/ Contains(donorLower \o <<" ">> \o transliterateHindiToEnglish(d.donorName),
                    term)

\* groupedDonors.filter(...) of the search.
RECURSIVE SearchFilter(_, _)
SearchFilter(aggs, term) ==
    IF aggs = <<>> THEN <<>>
    ELSE IF SearchMatches(Head(aggs), term)
         THEN <<Head(aggs)>> \o SearchFilter(Tail(aggs), term)
         ELSE SearchFilter(Tail(aggs), term)

\* The status filter with paid taken as amount >= 0.
RECURSIVE StatusFilterPaidFromZero(_, _)
StatusFilterPaidFromZero(aggs, statusFilter) ==
    IF aggs = <<>> \/ statusFilter \notin {"paid", "pledged"} THEN aggs
    ELSE IF \/ statusFilter = "paid" /\ Head(aggs).amount >= 0
            \/ statusFilter = "pledged" /\ Head(aggs).amount = 0
         THEN <<Head(aggs)>> \o StatusFilterPaidFromZero(Tail(aggs), statusFilter)
         ELSE StatusFilterPaidFromZero(Tail(aggs), statusFilter)

\* The status filter: paid keeps amount > 0, pledged keeps amount === 0,
\* anything else keeps all.
RECURSIVE StatusFilter(_, _)
StatusFilter(aggs, statusFilter) ==
    IF aggs = <<>> \/ statusFilter \notin {"paid", "pledged"} THEN aggs
    ELSE IF \/ statusFilter = "paid" /\ Head(aggs).amount > 0
            \/ statusFilter = "pledged" /\ Head(aggs).amount = 0
         THEN <<Head(aggs)>> \o StatusFilter(Tail(aggs), statusFilter)
         ELSE StatusFilter(Tail(aggs), statusFilter)

\* renderPublicView(searchTerm, categoryFilter, statusFilter): the donor
\* cards displayed, in display order.  An empty term and NoId (the empty
\* option) are falsy and filter nothing.
renderPublicViewFiltered(dons, cats, searchTerm, categoryFilter, statusFilter) ==
    LET rawDonations == ApprovedOnly(dons)
        grouped == groupDonationsByName(rawDonations)
        searched == IF searchTerm = <<>> THEN grouped
                    ELSE SearchFilter(grouped, ToLower(searchTerm))
        ofCategory == IF categoryFilter = NoId THEN searched
                      ELSE OfCategory(searched, categoryFilter)
        groupedDonors_ == StatusFilter(ofCategory, statusFilter)
    IN  IF categoryFilter = NoId
        THEN CategorySections(groupedDonors_, SortByOrder(cats))
        ELSE SortByAmountDesc(groupedDonors_)

\* renderPublicView() with its default arguments (no search term, no
\* category filter, no payment-status filter).
renderPublicView(dons, cats) == renderPublicViewFiltered(dons, cats, <<>>, NoId, "")

\* -------------------------------------------------------- client: handlers
\* loadAllData: the three GETs, answered from the server's state after the
\* request that precedes them.
loadAllData ==
    /\ categoriesCache' = GetCategories(categories')
    /\ donationsCache' = GetDonations(donations', categories')
    /\ settingsCache' = GetSettings(settings')

\* populateDonationCategorySelect: the ids of the categories offered, in
\* ascending order, filtered by canUserAccessCategory.
RECURSIVE AccessibleIds(_, _)
AccessibleIds(u, cats) ==
    IF cats = <<>> THEN <<>>
    ELSE IF canUserAccessCategory(u, Head(cats).id)
         THEN <<Head(cats).id>> \o AccessibleIds(u, Tail(cats))
         ELSE AccessibleIds(u, Tail(cats))
populateDonationCategorySelect(u, cache) == AccessibleIds(u, SortByOrder(cache))

\* The search input and the two filter selects as the page loads them:
\* all empty (NoId is the empty option of the category select).
NoFilters == [searchTerm |-> <<>>, categoryFilter |-> NoId, statusFilter |-> ""]

\* The admin panel before anything was rendered into it.
NoPanel ==
    [addDonationBtn |-> FALSE, addCategoryBtn |-> FALSE, addSubAdminBtn |-> FALSE,
     editBtns |-> FALSE, deleteBtns |-> FALSE, orderBtns |-> FALSE,
     categoryOptions |-> <<>>]

\* renderAdminDonations: the edit and delete buttons of the donation rows.
renderAdminDonations(panel, u) ==
    [panel EXCEPT !.editBtns = canUserEdit(u), !.deleteBtns = canUserDelete(u)]

\* showAdminPanel after loadAllData: renderAdminDonations,
\* renderAdminCategories, populateDonationCategorySelect and
\* updateAdminUIPermissions.
showAdminPanel(u, cache) ==
    [addDonationBtn |-> canUserAdd(u),
     addCategoryBtn |-> canUserManageCategory(u),
     addSubAdminBtn |-> u.type = "admin",
     editBtns |-> canUserEdit(u),
     deleteBtns |-> canUserDelete(u),
     orderBtns |-> canUserManageCategory(u),
     categoryOptions |-> populateDonationCategorySelect(u, cache)]

\* handleLogin, the captcha answered correctly: apiPost sends no x-user
\* header; on success the session is set and showAdminPanel loads the data.
handleLogin(username, password) ==
    /\ Login(NoHeaders, username, password)
    /\ IF last'.status = 200
       THEN /\ currentUser' = last'.user
            /\ loadAllData
            /\ adminPanel' = showAdminPanel(currentUser', categoriesCache')
       ELSE UNCHANGED <<currentUser, categoriesCache, donationsCache, settingsCache,
                        adminPanel>>
    /\ UNCHANGED <<groupedDonors, moves, filters, posts, inflight>>

\* The click on the admin trigger with a session open: showAdminPanel.
adminTriggerClick ==
    /\ currentUser # NoUser
    /\ UNCHANGED <<categories, donations, subAdmins, settings, log, logStoreUp,
                   nextId, served, last, currentUser, groupedDonors, moves, filters, posts, inflight>>
    /\ loadAllData
    /\ adminPanel' = showAdminPanel(currentUser, categoriesCache')

\* logout
logout ==
    /\ currentUser # NoUser
    /\ currentUser' = NoUser
    /\ UNCHANGED <<categories, donations, subAdmins, settings, log, logStoreUp,
                   nextId, served, last, categoriesCache, donationsCache,
                   settingsCache, groupedDonors, adminPanel, moves, filters, posts, inflight>>

\* The request body handleDonationSubmit builds from the form: the name
\* trimmed, no status field.
FormBody(form) ==
    [donorName |-> Trim(form.donorName), amount |-> form.amount, date |-> form.date,
     categoryId |-> form.categoryId, notes |-> form.notes, status |-> Absent]

\* handleDonationSubmit: apiPut when the form holds an id, apiPost otherwise
\* (neither sends an x-user header); on success the data is loaded again and
\* the admin table and the public view are rendered.
handleDonationSubmit(form) ==
    /\ IF form.id # NoId
       THEN PutDonation(NoHeaders, form.id, FormBody(form))
       ELSE PostDonations(NoHeaders, FormBody(form))
    /\ IF last'.status \in {200, 201}
       THEN /\ loadAllData
            /\ adminPanel' = renderAdminDonations(adminPanel, currentUser)
            /\ groupedDonors' = renderPublicView(donationsCache', categoriesCache')
       ELSE UNCHANGED <<categoriesCache, donationsCache, settingsCache, groupedDonors,
                        adminPanel>>
    /\ UNCHANGED <<currentUser, moves, filters, posts, inflight>>

\* deleteDonation, the confirm dialog accepted.
deleteDonation(id) ==
    /\ DeleteDonation(NoHeaders, id)
    /\ IF last'.status = 200
       THEN /\ loadAllData
            /\ adminPanel' = renderAdminDonations(adminPanel, currentUser)
            /\ groupedDonors' = renderPublicView(donationsCache', categoriesCache')
       ELSE UNCHANGED <<categoriesCache, donationsCache, settingsCache, groupedDonors,
                        adminPanel>>
    /\ UNCHANGED <<currentUser, moves, filters, posts, inflight>>

\* renderAdminCategories: the order, edit and delete buttons of the rows.
renderAdminCategories(panel, u) ==
    [panel EXCEPT !.orderBtns = canUserManageCategory(u)]

\* sortedCategories.findIndex(c => c._id === id): 0-based, -1 when absent.
FindIndex(sorted, id) ==
    IF \E i \in 1..Len(sorted) : sorted[i].id = id
    THEN (CHOOSE i \in 1..Len(sorted) : sorted[i].id = id) - 1
    ELSE -1

\* The orders array of a move: the two categories at the 0-based indices
\* index and other of the sorted list, each given the other's order key.
SwapOrders(sorted, index, other) ==
    << [id |-> sorted[index + 1].id, order |-> sorted[other + 1].order],
       [id |-> sorted[other + 1].id, order |-> sorted[index + 1].order] >>

\* What is noted of a call of moveCategoryUp or moveCategoryDown: the
\* direction, the category, its index in the sorted cache, whether the cache
\* was what the server holds, whether a request was sent, and the stored
\* categories before and after the call.  The last two calls are kept.
NoteMove(op, id, index, sent) ==
    LET m == [op |-> op, id |-> id, index |-> index, sent |-> sent,
              fresh |-> categoriesCache = GetCategories(categories),
              before |-> categories, after |-> categories']
    IN  IF moves = <<>> THEN <<m>> ELSE <<moves[Len(moves)], m>>

\* What a move does once its orders are built: apiPut on
\* /api/categories/reorder, then, unless it threw, loadAllData and the
\* renderings.
SendReorder(orders) ==
    /\ PutCategoriesReorder(NoHeaders, orders)
    /\ IF last'.status = 200
       THEN /\ loadAllData
            /\ adminPanel' = renderAdminCategories(adminPanel, currentUser)
            /\ groupedDonors' = renderPublicView(donationsCache', categoriesCache')
       ELSE UNCHANGED <<categoriesCache, donationsCache, settingsCache, groupedDonors,
                        adminPanel>>

\* A move that returns before sending anything.
NoReorder ==
    UNCHANGED <<categories, donations, subAdmins, settings, log, logStoreUp, nextId,
                served, last, categoriesCache, donationsCache, settingsCache,
                groupedDonors, adminPanel>>

\* moveCategoryUp with the guard index < 0, the first category taking the
\* place of the last.
moveCategoryUpFromFirst(id) ==
    LET sortedCategories == SortByOrder(categoriesCache)
        index == FindIndex(sortedCategories, id)
    IN  /\ IF index < 0
           THEN NoReorder /\ moves' = NoteMove("up", id, index, FALSE)
           ELSE /\ SendReorder(SwapOrders(sortedCategories, index,
                                          IF index = 0 THEN Len(sortedCategories) - 1
                                          ELSE index - 1))
                /\ moves' = NoteMove("up", id, index, TRUE)
        /\ UNCHANGED <<currentUser, filters, posts, inflight>>

\* moveCategoryUp
moveCategoryUp(id) ==
    LET sortedCategories == SortByOrder(categoriesCache)
        index == FindIndex(sortedCategories, id)
    IN  /\ IF index <= 0
           THEN NoReorder /\ moves' = NoteMove("up", id, index, FALSE)
           ELSE /\ SendReorder(SwapOrders(sortedCategories, index, index - 1))
                /\ moves' = NoteMove("up", id, index, TRUE)
        /\ UNCHANGED <<currentUser, filters, posts, inflight>>

\* moveCategoryDown, called from the button of a listed category.
moveCategoryDown(id) ==
    LET sortedCategories == SortByOrder(categoriesCache)
        index == FindIndex(sortedCategories, id)
    IN  /\ index >= 0
        /\ IF index >= Len(sortedCategories) - 1
           THEN NoReorder /\ moves' = NoteMove("down", id, index, FALSE)
           ELSE /\ SendReorder(SwapOrders(sortedCategories, index, index + 1))
                /\ moves' = NoteMove("down", id, index, TRUE)
        /\ UNCHANGED <<currentUser, filters, posts, inflight>>

\* Everything but what the inputs and the public view show.
InputFrame ==
    UNCHANGED <<categories, donations, subAdmins, settings, log, logStoreUp, nextId,
                served, last, currentUser, categoriesCache, donationsCache,
                settingsCache, adminPanel, moves, posts, inflight>>

\* The input event of the search box.  Of its listeners the one
\* setupEventListeners adds is added last and so renders last: it passes
\* the term and the category, no status.
searchInput(term) ==
    /\ filters' = [filters EXCEPT !.searchTerm = term]
    /\ groupedDonors' = renderPublicViewFiltered(donationsCache, categoriesCache, term,
                                                 filters.categoryFilter, "")
    /\ InputFrame

\* The change event of the category select: as for the search box.
categoryFilterChange(c) ==
    /\ filters' = [filters EXCEPT !.categoryFilter = c]
    /\ groupedDonors' = renderPublicViewFiltered(donationsCache, categoriesCache,
                                                 filters.searchTerm, c, "")
    /\ InputFrame

\* The change event of the payment-status select: every listener passes
\* the term, the category and the status.
paymentStatusFilterChange(st) ==
    /\ filters' = [filters EXCEPT !.statusFilter = st]
    /\ groupedDonors' = renderPublicViewFiltered(donationsCache, categoriesCache,
                                                 filters.searchTerm,
                                                 filters.categoryFilter, st)
    /\ InputFrame

\* ------------------------------------------------------------ input sets
Usernames == {adminUsername, "sub1"}
Passwords == {adminDefaultPassword, "pw1"}

\* What a login request can carry: a username no account has, and a body
\* without password, besides the above.
LoginUsernames == Usernames \cup {"nobody"}
LoginPasswords == Passwords \cup {Absent}

\* The schema defaults of subAdminSchema.permissions, and a set that lets
\* the holder edit and manage the first category only.
DefaultPermissions ==
    [canAddDonation |-> TRUE, canEditDonation |-> FALSE, canDeleteDonation |-> FALSE,
     canManageCategory |-> FALSE, assignedCategories |-> <<>>]
EditorPermissions ==
    [canAddDonation |-> FALSE, canEditDonation |-> TRUE, canDeleteDonation |-> FALSE,
     canManageCategory |-> TRUE, assignedCategories |-> <<1>>]
PermissionChoices == {DefaultPermissions, EditorPermissions}

\* A well-formed ObjectId that no category ever had.
UnknownCategoryId == 9

\* Ids a request can name: those of the documents, and one that names none;
\* for a category also the one no category ever had, which a donation body
\* can carry.
DonationIds == Ids(donations) \cup {NoId}
CategoryIds == Ids(categories) \cup {NoId, UnknownCategoryId}
SubAdminIds == Ids(subAdmins) \cup {NoId}

\* Bodies of POST /api/donations: a paid donation, a dated donation of
\* amount 0, a paid donation to a category that does not exist, and a pledge
\* without amount and date that asks for status pending.
PostBodies ==
    {[donorName |-> NameRam, amount |-> a, date |-> 2, categoryId |-> c,
      notes |-> Absent, status |-> Absent] : a \in {5, 0}, c \in Ids(categories)}
    \cup
    {[donorName |-> NameRam, amount |-> 5, date |-> 2, categoryId |-> UnknownCategoryId,
      notes |-> Absent, status |-> Absent]}
    \cup
    {[donorName |-> NameRamBlank, amount |-> NullNum, date |-> AbsentNum,
      categoryId |-> c, notes |-> Absent, status |-> "pending"] : c \in Ids(categories)}

\* Bodies of PUT /api/donations/:id: a new amount, or a new status.
PutBodies ==
    {[donorName |-> NoName, amount |-> 7, date |-> AbsentNum, categoryId |-> NoId,
      notes |-> Absent, status |-> Absent],
     [donorName |-> NoName, amount |-> AbsentNum, date |-> AbsentNum,
      categoryId |-> NoId, notes |-> Absent, status |-> "pending"]}

\* What the donation form can hold: a new donation or an edit of a stored
\* one, its category one of the options of the select, which are the
\* categories as this client loaded them last.
Forms ==
    {[id |-> i, donorName |-> NameRamBlank, amount |-> a, date |-> 2,
      categoryId |-> c, notes |-> ""] :
        i \in DonationIds, a \in {NullNum, 5}, c \in Ids(categoriesCache)}

CategoryBodies == {[name |-> "ganesh-chowk", order |-> AbsentNum],
                   [name |-> Absent, order |-> 1]}

SubAdminBodies ==
    {[username |-> "sub2", password |-> "pw1", permissions |-> p] :
        p \in PermissionChoices}
    \cup {[username |-> Absent, password |-> Absent, permissions |-> EditorPermissions]}

\* --------------------------------------------------------- specification
\* The database after initializeData and the creation of the first
\* sub-admin, and a client that has run initApp (loadAllData, then
\* renderPublicView()) on it.
InitSubAdmins ==
    << [id |-> 4, username |-> "sub1", password |-> Hash("pw1"),
        permissions |-> DefaultPermissions] >>
InitLog ==
    << [action |-> "ADD", entity |-> "SUBADMIN", entityId |-> 4,
        user |-> "admin", userType |-> "admin"] >>

Init ==
    /\ categories = InitCategories
    /\ donations = InitDonations
    /\ subAdmins = InitSubAdmins
    /\ settings = InitSettings
    /\ log = InitLog
    /\ logStoreUp = TRUE
    /\ nextId = 5
    /\ served = 0
    /\ last = NoResponse
    /\ currentUser = NoUser
    /\ categoriesCache = GetCategories(InitCategories)
    /\ donationsCache = GetDonations(InitDonations, InitCategories)
    /\ settingsCache = GetSettings(InitSettings)
    /\ groupedDonors = renderPublicView(GetDonations(InitDonations, InitCategories),
                                      GetCategories(InitCategories))
    /\ adminPanel = NoPanel
    /\ moves = <<>>
    /\ filters = NoFilters
    /\ posts = <<>>
    /\ inflight = <<>>

\* A request to one of the server's routes.  The x-user headers are varied
\* where the server branches on them; a request without them is what this
\* client sends, on behalf of currentUser.
ApiRequest ==
    \/ \E u \in LoginUsernames, p \in LoginPasswords : Login(NoHeaders, u, p)
    \/ \E h \in HeaderChoices, b \in PostBodies : PostDonations(h, b)
    \/ \E id \in DonationIds, b \in PutBodies : PutDonation(NoHeaders, id, b)
    \/ \E id \in DonationIds : ApproveDonation(NoHeaders, id)
    \/ \E id \in DonationIds : DeleteDonation(NoHeaders, id)
    \/ \E b \in CategoryBodies : PostCategories(NoHeaders, b)
    \/ \E id \in CategoryIds, b \in CategoryBodies : PutCategory(NoHeaders, id, b)
    \/ \E id \in CategoryIds : DeleteCategory(NoHeaders, id)
    \/ PutCategoriesReorder(NoHeaders, <<>>)
    \/ \E b \in SubAdminBodies : PostSubAdmins(NoHeaders, b)
    \/ \E id \in SubAdminIds, b \in SubAdminBodies : PutSubAdmin(NoHeaders, id, b)
    \/ \E id \in SubAdminIds : DeleteSubAdmin(NoHeaders, id)
    \/ \E m \in {"list", "cards"} : PutSettings(NoHeaders, m)
    \/ \E c \in Passwords, n \in Passwords : PutSettingsPassword(NoHeaders, c, n)
    \/ \E e \in BOOLEAN : PutSettingsCommunity(NoHeaders, e)
    \/ \E e \in BOOLEAN : PutSettingsShowDates(NoHeaders, e)

Next ==
    \/ ApiRequest /\ UNCHANGED <<clientVars, communityVars>>
    \/ AuditStoreChanges /\ UNCHANGED <<clientVars, communityVars>>
    \/ \E u \in Usernames, p \in Passwords : handleLogin(u, p)
    \/ logout
    \/ \E f \in Forms : handleDonationSubmit(f)
    \/ \E id \in DonationIds : deleteDonation(id)

Spec == Init /\ [][Next]_vars

\* ------------------------------------------- the aggregator on any records
\* Donation records as GET /api/donations returns them (populated), all of
\* one date so that every order of them is a sorted one.
AggRecords ==
    {[id |-> NoId, donorName |-> n, amount |-> a, date |-> 1, categoryId |-> c,
      notes |-> "", status |-> st] :
        n \in {NameRam, NameRamBlank, NameSita}, a \in {NullNum, 5},
        c \in {InitCategories[1], InitCategories[2]}, st \in {"approved", "pending"}}

\* A client whose donationsCache holds any list of at most MaxRecords
\* records, each with its own id.
InitAgg ==
    /\ categories = InitCategories
    /\ donations = InitDonations
    /\ subAdmins = InitSubAdmins
    /\ settings = InitSettings
    /\ log = InitLog
    /\ logStoreUp = TRUE
    /\ nextId = 5
    /\ served = 0
    /\ last = NoResponse
    /\ currentUser = NoUser
    /\ categoriesCache = GetCategories(InitCategories)
    /\ \E n \in 0..MaxRecords : \E f \in [1..n -> AggRecords] :
          donationsCache = [i \in 1..n |-> [f[i] EXCEPT !.id = 10 + i]]
    /\ settingsCache = GetSettings(InitSettings)
    /\ groupedDonors = <<>>
    /\ adminPanel = NoPanel
    /\ moves = <<>>
    /\ filters = NoFilters
    /\ posts = <<>>
    /\ inflight = <<>>

\* renderPublicView() on the cache as it is.
RenderPublicView ==
    /\ groupedDonors' = renderPublicView(donationsCache, categoriesCache)
    /\ UNCHANGED <<categories, donations, subAdmins, settings, log, logStoreUp,
                   nextId, served, last, currentUser, categoriesCache,
                   donationsCache, settingsCache, adminPanel, moves, filters, posts, inflight>>

NextAgg == RenderPublicView

SpecAgg == InitAgg /\ [][NextAgg]_vars

\* ------------------------------- the aggregator on dated, annotated records
\* Approved records of one donor and one category under two spellings, with
\* a date and notes each.
RepRecords ==
    {[id |-> NoId, donorName |-> n, amount |-> 5, date |-> dt,
      categoryId |-> InitCategories[1], notes |-> nt, status |-> "approved"] :
        n \in {NameRam, NameRamBlank}, dt \in {1, 2}, nt \in {"hall", "gate"}}

\* A client whose donationsCache holds at most MaxRecords such records,
\* newest first as GET /api/donations returns them.
InitRep ==
    /\ categories = InitCategories
    /\ donations = InitDonations
    /\ subAdmins = InitSubAdmins
    /\ settings = InitSettings
    /\ log = InitLog
    /\ logStoreUp = TRUE
    /\ nextId = 5
    /\ served = 0
    /\ last = NoResponse
    /\ currentUser = NoUser
    /\ categoriesCache = GetCategories(InitCategories)
    /\ \E n \in 0..MaxRecords : \E f \in [1..n -> RepRecords] :
          /\ \A i \in 1..(n - 1) : DateValue(f[i].date) >= DateValue(f[i + 1].date)
          /\ donationsCache = [i \in 1..n |-> [f[i] EXCEPT !.id = 10 + i]]
    /\ settingsCache = GetSettings(InitSettings)
    /\ groupedDonors = <<>>
    /\ adminPanel = NoPanel
    /\ moves = <<>>
    /\ filters = NoFilters
    /\ posts = <<>>
    /\ inflight = <<>>

SpecRep == InitRep /\ [][NextAgg]_vars

\* ---------------------------------------- the public view under its inputs
\* The most records the cache of this client holds.
MaxFilterRecords == 2

\* Approved and pending records of a Latin and a Devanagari name, with a
\* missing amount, amount 0 and amount 5.
FilterRecords ==
    {[id |-> NoId, donorName |-> n, amount |-> a, date |-> 1, categoryId |-> c,
      notes |-> "", status |-> st] :
        n \in {NameRam, NameShriRam}, a \in {NullNum, 0, 5},
        c \in {InitCategories[1], InitCategories[2]}, st \in {"approved", "pending"}}

\* What is typed into the search box: nothing, "shri", "ram".
SearchTerms == {<<>>, <<"s", "h", "r", "i">>, <<"r", "a", "m">>}

\* The options of the category select: all, or one category.
CategoryOptions == {NoId} \cup Ids(InitCategories)

\* The options of the payment-status select.
StatusOptions == {"", "paid", "pledged"}

\* A client after initApp: the caches loaded, the public view rendered with
\* no filter.
InitFilter ==
    /\ categories = InitCategories
    /\ donations = InitDonations
    /\ subAdmins = InitSubAdmins
    /\ settings = InitSettings
    /\ log = InitLog
    /\ logStoreUp = TRUE
    /\ nextId = 5
    /\ served = 0
    /\ last = NoResponse
    /\ currentUser = NoUser
    /\ categoriesCache = GetCategories(InitCategories)
    /\ \E n \in 0..MaxFilterRecords : \E f \in [1..n -> FilterRecords] :
          donationsCache = [i \in 1..n |-> [f[i] EXCEPT !.id = 10 + i]]
    /\ settingsCache = GetSettings(InitSettings)
    /\ groupedDonors = renderPublicView(donationsCache, categoriesCache)
    /\ adminPanel = NoPanel
    /\ moves = <<>>
    /\ filters = NoFilters
    /\ posts = <<>>
    /\ inflight = <<>>

NextFilter ==
    \/ \E term \in SearchTerms : searchInput(term)
    \/ \E c \in CategoryOptions : categoryFilterChange(c)
    \/ \E st \in StatusOptions : paymentStatusFilterChange(st)

SpecFilter == InitFilter /\ [][NextFilter]_vars

\* ------------------------------------------------------ the community wall
\* A content of 501 characters.
LongContent == [i \in 1..(MaxPostLength + 1) |-> "a"]

\* What a post or a reply can carry: nothing, a blank, "jai", " jai ",
\* "Ram", "Sita", "hello", "HATE", and a content over both length limits.
Contents ==
    {<<>>, <<" ">>, <<"j", "a", "i">>, <<" ", "j", "a", "i", " ">>, NameRam, NameSita,
     <<"h", "e", "l", "l", "o">>, <<"H", "A", "T", "E">>, LongContent}

PostIds == Ids(posts) \cup {NoId}

\* The database with the community feature as the settings were created
\* (disabled) or as the admin has switched it (enabled), holding no post or
\* a first one.
InitCommunity ==
    /\ categories = InitCategories
    /\ donations = InitDonations
    /\ subAdmins = InitSubAdmins
    /\ \E e \in BOOLEAN : settings = [InitSettings EXCEPT !.communityEnabled = e]
    /\ log = InitLog
    /\ logStoreUp = TRUE
    /\ \/ posts = <<>> /\ nextId = 5
       \/ /\ posts = <<[id |-> 5, content |-> <<"j", "a", "i">>, replies |-> <<>>,
                        isVisible |-> TRUE]>>
          /\ nextId = 6
    /\ served = 0
    /\ last = NoResponse
    /\ currentUser = NoUser
    /\ categoriesCache = GetCategories(InitCategories)
    /\ donationsCache = GetDonations(InitDonations, InitCategories)
    /\ settingsCache = GetSettings(InitSettings)
    /\ groupedDonors = renderPublicView(GetDonations(InitDonations, InitCategories),
                                      GetCategories(InitCategories))
    /\ adminPanel = NoPanel
    /\ moves = <<>>
    /\ filters = NoFilters
    /\ inflight = <<>>

CommunityRequest ==
    \/ \E c \in Contents : PostCommunity(NoHeaders, c)
    \/ \E id \in PostIds, c \in Contents : PostCommunityReply(NoHeaders, id, c)
    \/ \E id \in PostIds : DeleteCommunityPost(NoHeaders, id)
    \/ \E e \in BOOLEAN : PutSettingsCommunity(NoHeaders, e) /\ UNCHANGED posts

NextCommunity == CommunityRequest /\ UNCHANGED <<clientVars, inflight>>

SpecCommunity == InitCommunity /\ [][NextCommunity]_vars

\* ------------------------------------------- delete requests, await by await
\* A DELETE request arrives: its handler starts and stops at its first
\* await, countDocuments for a category, findById for the others.
ReceiveDelete(h, entity, id) ==
    /\ Serve
    /\ inflight' = Append(inflight,
                          [h |-> h, entity |-> entity, id |-> id,
                           pc |-> IF entity = "CATEGORY" THEN "count" ELSE "find"])
    /\ UNCHANGED <<categories, donations, subAdmins, settings, log, logStoreUp,
                   nextId, last>>

\* The handler of the k-th request in flight runs from the await it stopped
\* at to its next one, or to its response.
DeleteStep(k) ==
    LET r == inflight[k]
        op == CASE r.entity = "DONATION" -> "DELETE donation"
                [] r.entity = "CATEGORY" -> "DELETE category"
                [] OTHER -> "DELETE subadmin"
        coll == CASE r.entity = "DONATION" -> donations
                  [] r.entity = "CATEGORY" -> categories
                  [] OTHER -> subAdmins
        rest == SubSeq(inflight, 1, k - 1) \o SubSeq(inflight, k + 1, Len(inflight))
        goto(pc) == [inflight EXCEPT ![k].pc = pc]
    IN  /\ UNCHANGED <<settings, logStoreUp, nextId, served>>
        /\ CASE r.pc = "count" ->
                  /\ IF DonationCount(r.id) > 0
                     THEN /\ last' = Response(op, r.h, 400, r.id, DonationCount(r.id))
                          /\ inflight' = rest
                     ELSE /\ last' = last
                          /\ inflight' = goto("find")
                  /\ UNCHANGED <<categories, donations, subAdmins, log>>
             [] r.pc = "find" ->
                  /\ IF FindById(coll, r.id) = 0
                     THEN /\ last' = Response(op, r.h, 404, r.id, 0)
                          /\ inflight' = rest
                     ELSE /\ last' = last
                          /\ inflight' = goto("log")
                  /\ UNCHANGED <<categories, donations, subAdmins, log>>
             [] r.pc = "log" ->
                  /\ log' = createLog(r.h, "DELETE", r.entity, r.id)
                  /\ inflight' = goto("delete")
                  /\ UNCHANGED <<categories, donations, subAdmins, last>>
             [] OTHER ->
                  /\ donations' = IF r.entity = "DONATION"
                                  THEN DeleteById(donations, r.id) ELSE donations
                  /\ categories' = IF r.entity = "CATEGORY"
                                   THEN DeleteById(categories, r.id) ELSE categories
                  /\ subAdmins' = IF r.entity = "SUBADMIN"
                                  THEN DeleteById(subAdmins, r.id) ELSE subAdmins
                  /\ last' = Response(op, r.h, 200, r.id, 0)
                  /\ inflight' = rest
                  /\ log' = log

NextRace ==
    \/ /\ \/ \E id \in DonationIds : ReceiveDelete(NoHeaders, "DONATION", id)
          \/ \E id \in CategoryIds : ReceiveDelete(NoHeaders, "CATEGORY", id)
          \/ \E id \in SubAdminIds : ReceiveDelete(NoHeaders, "SUBADMIN", id)
       /\ UNCHANGED <<clientVars, posts>>
    \/ \E k \in 1..Len(inflight) : DeleteStep(k) /\ UNCHANGED <<clientVars, posts>>

SpecRace == Init /\ [][NextRace]_vars

\* ------------------------------------- the permission evaluator on any actor
\* Every permission set over the two initial categories.
AllPermissions ==
    {[canAddDonation |-> a, canEditDonation |-> e, canDeleteDonation |-> d,
      canManageCategory |-> m, assignedCategories |-> cs] :
        a \in BOOLEAN, e \in BOOLEAN, d \in BOOLEAN, m \in BOOLEAN,
        cs \in {<<>>, <<1>>, <<2>>, <<1, 2>>}}

\* Every value of currentUser the evaluator can be asked about: none, an
\* admin, a sub-admin, the last two with any permission set.
Sessions ==
    {NoUser}
    \cup {[type |-> "admin", id |-> NoId, username |-> adminUsername, permissions |-> p] :
            p \in AllPermissions}
    \cup {[type |-> "subadmin", id |-> 4, username |-> "sub1", permissions |-> p] :
            p \in AllPermissions}

InitPerm ==
    /\ categories = InitCategories
    /\ donations = InitDonations
    /\ subAdmins = InitSubAdmins
    /\ settings = InitSettings
    /\ log = InitLog
    /\ logStoreUp = TRUE
    /\ nextId = 5
    /\ served = 0
    /\ last = NoResponse
    /\ currentUser \in Sessions
    /\ categoriesCache = GetCategories(InitCategories)
    /\ donationsCache = GetDonations(InitDonations, InitCategories)
    /\ settingsCache = GetSettings(InitSettings)
    /\ groupedDonors = renderPublicView(GetDonations(InitDonations, InitCategories),
                                      GetCategories(InitCategories))
    /\ adminPanel = NoPanel
    /\ moves = <<>>
    /\ filters = NoFilters
    /\ posts = <<>>
    /\ inflight = <<>>

NextPerm == adminTriggerClick \/ logout

SpecPerm == InitPerm /\ [][NextPerm]_vars

\* --------------------------------------------- category order on any list
\* Order keys categories can hold (POST assigns them, PUT sets any), and the
\* bodies sent to POST /api/categories: one without and one with an order.
OrderKeys == 0..2
OrderBodies == {[name |-> "ganesh-chowk", order |-> AbsentNum],
                [name |-> "shiv-nagar", order |-> 7]}

\* The server holding any list of at most MaxCategories categories without
\* donations, the admin logged in on a client that has loaded them.
InitOrder ==
    /\ \E n \in 0..MaxCategories : \E f \in [1..n -> OrderKeys] :
          categories = [i \in 1..n |-> [id |-> i, name |-> "tola", order |-> f[i]]]
    /\ donations = <<>>
    /\ subAdmins = InitSubAdmins
    /\ settings = InitSettings
    /\ log = InitLog
    /\ logStoreUp = TRUE
    /\ nextId = 5
    /\ served = 0
    /\ last = NoResponse
    /\ currentUser = [type |-> "admin", id |-> NoId, username |-> adminUsername,
                      permissions |-> NoPermissions]
    /\ categoriesCache = GetCategories(categories)
    /\ donationsCache = <<>>
    /\ settingsCache = GetSettings(InitSettings)
    /\ groupedDonors = <<>>
    /\ adminPanel = showAdminPanel(currentUser, categoriesCache)
    /\ moves = <<>>
    /\ filters = NoFilters
    /\ posts = <<>>
    /\ inflight = <<>>

NextOrderSteps ==
    \/ \E id \in Ids(categoriesCache) : moveCategoryUp(id)
    \/ \E id \in Ids(categoriesCache) : moveCategoryDown(id)
    \/ \E b \in OrderBodies : PostCategories(NoHeaders, b) /\ UNCHANGED <<clientVars, communityVars>>

SpecOrder == InitOrder /\ [][NextOrderSteps]_vars

\* ================================================================ claims
\* The step is one request handled by the server.
Handled == served' = served + 1

\* The routes that write donations, categories or sub-admins.
MutatingRoutes ==
    {"POST donations", "PUT donation", "PUT donation approve", "DELETE donation",
     "POST categories", "PUT category", "DELETE category", "PUT categories reorder",
     "POST subadmins", "PUT subadmin", "DELETE subadmin"}

\* The permission evaluator's answer for the actor u and a mutating route:
\* approval and the sub-admin routes are for the admin only.
Denies(u, route) ==
    CASE route = "POST donations" -> ~canUserAdd(u)
      [] route = "PUT donation" -> ~canUserEdit(u)
      [] route = "DELETE donation" -> ~canUserDelete(u)
      [] route \in {"POST categories", "PUT category", "DELETE category",
                    "PUT categories reorder"} -> ~canUserManageCategory(u)
      [] OTHER -> u.type # "admin"

\* C1: a mutating request made on behalf of an actor the permission
\* evaluator denies (no session, or a sub-admin without the flag) leaves
\* donations, categories, sub-admins and the activity log as they were.
C1_DeniedRequestChangesNothing ==
    [][(Handled /\ last'.h = NoHeaders /\ last'.op \in MutatingRoutes
        /\ Denies(currentUser, last'.op))
       => (donations' = donations /\ categories' = categories
           /\ subAdmins' = subAdmins /\ log' = log)]_vars

\* With no session open, a donation deletion was served and the donation is
\* gone.
C1_Witness ==
    /\ currentUser = NoUser
    /\ last.op = "DELETE donation" /\ last.h = NoHeaders /\ last.status = 200
    /\ last.id \notin Ids(donations)
    /\ Len(log) > Len(InitLog)

\* The amounts of the aggregates of category c, added up.
RECURSIVE SumAggregates(_, _)
SumAggregates(aggs, c) ==
    IF aggs = <<>> THEN 0
    ELSE (IF Head(aggs).categoryId.id = c THEN Head(aggs).amount ELSE 0)
         + SumAggregates(Tail(aggs), c)

\* The amounts of the approved records of category c, a null amount as 0.
RECURSIVE SumApproved(_, _)
SumApproved(dons, c) ==
    IF dons = <<>> THEN 0
    ELSE (IF Head(dons).status = "approved" /\ Head(dons).categoryId.id = c
             /\ Head(dons).amount # NullNum
          THEN Head(dons).amount ELSE 0)
         + SumApproved(Tail(dons), c)

\* C2: for every category, the totals of the aggregates of the approved
\* records add up to the amounts of the approved records of that category;
\* pending records add nothing.
C2_Conservation ==
    \A i \in 1..Len(categoriesCache) :
        SumAggregates(renderPublicView(donationsCache, categoriesCache),
                      categoriesCache[i].id)
            = SumApproved(donationsCache, categoriesCache[i].id)

\* Two records of one donor and category were merged into one aggregate of
\* total 10 and displayed, while a pending record of amount 5 of the same
\* category is in the cache.
C2_Witness ==
    \E i \in 1..Len(groupedDonors) :
        /\ groupedDonors[i].amount = 10
        /\ Len(groupedDonors[i].history) = 2
        /\ \E j \in 1..Len(donationsCache) :
              /\ donationsCache[j].status = "pending"
              /\ donationsCache[j].amount = 5
              /\ donationsCache[j].categoryId = groupedDonors[i].categoryId

\* C3: a donation that is approved stays approved for as long as it is
\* stored, whatever request is handled.
C3_ApprovalIsOneWay ==
    [][\A i \in 1..Len(donations) : \A j \in 1..Len(donations') :
          (donations[i].status = "approved" /\ donations'[j].id = donations[i].id)
          => donations'[j].status = "approved"]_vars

\* The initial approved donation was edited and is now pending.
C3_Witness ==
    /\ last.op = "PUT donation" /\ last.status = 200
    /\ \E i \in 1..Len(donations) :
          /\ donations[i].id = last.id
          /\ donations[i].id = InitDonations[1].id
          /\ donations[i].status = "pending"

\* C4: a donation created from the client (no x-user headers) is stored
\* approved when the session is the admin's and pending when it is a
\* sub-admin's.
C4_StatusFollowsCreator ==
    [][(Handled /\ last'.op = "POST donations" /\ last'.status = 201
        /\ last'.h = NoHeaders)
       => /\ currentUser.type = "admin"
             => donations'[Len(donations')].status = "approved"
          /\ currentUser.type = "subadmin"
             => donations'[Len(donations')].status = "pending"]_vars

\* With a sub-admin's session open, a donation was created without x-user
\* headers and is stored approved.
C4_Witness ==
    /\ currentUser.type = "subadmin"
    /\ last.op = "POST donations" /\ last.h = NoHeaders /\ last.status = 201
    /\ \E i \in 1..Len(donations) :
          donations[i].id = last.id /\ donations[i].status = "approved"

\* The number of donations that reference category id.
References(id) == Cardinality({i \in 1..Len(donations) : donations[i].categoryId = id})

\* C5: deleting a category that N > 0 donations reference is refused, the
\* response reports N, and categories, donations and the log are as before;
\* a category is removed only when no donation references it.
C5_DeleteReferencedCategoryRefused ==
    [][/\ (Handled /\ last'.op = "DELETE category" /\ References(last'.id) > 0)
          => /\ last'.status = 400
             /\ last'.count = References(last'.id)
             /\ categories' = categories /\ donations' = donations /\ log' = log
       /\ \A id \in Ids(categories) \ Ids(categories') : References(id) = 0]_vars

\* The deletion of a category with one donation was refused, reporting 1.
C5_Witness ==
    /\ last.op = "DELETE category" /\ last.status = 400 /\ last.count = 1
    /\ last.id \in Ids(categories)
    /\ References(last.id) = 1

\* C6: the activity log only grows at its end: the log before a step is a
\* prefix of the log after it.
C6_LogAppendOnly ==
    [][Len(log') >= Len(log) /\ SubSeq(log', 1, Len(log)) = log]_vars

\* Two entries were appended to the initial log.
C6_Witness == Len(log) = Len(InitLog) + 2 /\ SubSeq(log, 1, Len(InitLog)) = InitLog

\* The routes whose successful handling the log must record, a failed login
\* (401) included.
LoggedRoutes ==
    {"POST login", "POST donations", "PUT donation", "PUT donation approve",
     "DELETE donation", "POST categories", "PUT category", "DELETE category",
     "POST subadmins", "PUT subadmin", "DELETE subadmin", "PUT settings",
     "PUT settings password", "PUT settings community", "PUT settings showDates"}

\* C7: every successful action on a logged route (and every failed login)
\* appends exactly one entry to the log, when recording does not fail.
C7_OneEntryPerAction ==
    [][(Handled /\ logStoreUp /\ last'.op \in LoggedRoutes
        /\ (last'.status \in {200, 201} \/ (last'.op = "POST login" /\ last'.status = 401)))
       => (Len(log') = Len(log) + 1 /\ SubSeq(log', 1, Len(log)) = log)]_vars

\* The view mode was changed to list while recording works, and the log is
\* the initial one.
C7_Witness ==
    /\ logStoreUp
    /\ last.op = "PUT settings" /\ last.status = 200
    /\ settings.viewMode = "list"
    /\ log = InitLog

\* C8: the evaluator allows an admin everything, whatever permission set
\* the session carries, and allows nothing when there is no session.
C8_AdminAllNoActorNone ==
    /\ currentUser.type = "admin"
       => /\ canUserAdd(currentUser) /\ canUserEdit(currentUser)
          /\ canUserDelete(currentUser) /\ canUserManageCategory(currentUser)
          /\ \A id \in 0..3 : canUserAccessCategory(currentUser, id)
    /\ currentUser = NoUser
       => /\ ~canUserAdd(currentUser) /\ ~canUserEdit(currentUser)
          /\ ~canUserDelete(currentUser) /\ ~canUserManageCategory(currentUser)
          /\ \A id \in 0..3 : ~canUserAccessCategory(currentUser, id)

\* An admin session carrying an all-false permission set restricted to
\* category 1, with the panel rendered: every control and category offered.
C8_Witness ==
    /\ currentUser.type = "admin"
    /\ currentUser.permissions = [NoPermissions EXCEPT !.assignedCategories = <<1>>]
    /\ adminPanel.addDonationBtn /\ adminPanel.editBtns /\ adminPanel.deleteBtns
    /\ adminPanel.addCategoryBtn
    /\ adminPanel.categoryOptions = <<1, 2>>

\* C9: for a sub-admin each of add, edit, delete and manage-category is
\* allowed exactly when its flag is true.
C9_SubAdminFlags ==
    currentUser.type = "subadmin"
    => /\ canUserAdd(currentUser) <=> currentUser.permissions.canAddDonation
       /\ canUserEdit(currentUser) <=> currentUser.permissions.canEditDonation
       /\ canUserDelete(currentUser) <=> currentUser.permissions.canDeleteDonation
       /\ canUserManageCategory(currentUser) <=> currentUser.permissions.canManageCategory

\* A sub-admin with all four flags false, the panel rendered: no control is
\* shown, the categories are still offered.
C9_Witness ==
    /\ currentUser.type = "subadmin"
    /\ currentUser.permissions = NoPermissions
    /\ ~adminPanel.addDonationBtn /\ ~adminPanel.editBtns /\ ~adminPanel.deleteBtns
    /\ ~adminPanel.addCategoryBtn
    /\ adminPanel.categoryOptions = <<1, 2>>

\* C10: for a sub-admin, a category is accessible exactly when the assigned
\* list is empty or holds its id.
C10_CategoryAccess ==
    currentUser.type = "subadmin"
    => \A id \in 1..3 :
          canUserAccessCategory(currentUser, id)
          <=> \/ currentUser.permissions.assignedCategories = <<>>
              \/ \E k \in DOMAIN currentUser.permissions.assignedCategories :
                    currentUser.permissions.assignedCategories[k] = id

\* A sub-admin assigned category 1 only: the select offers category 1 and
\* not category 2.
C10_Witness ==
    /\ currentUser.type = "subadmin"
    /\ currentUser.permissions.assignedCategories = <<1>>
    /\ adminPanel.categoryOptions = <<1>>
    /\ ~canUserAccessCategory(currentUser, 2)

\* The step is a call of moveCategoryUp or moveCategoryDown, noted last in
\* moves'.
MoveStep ==
    /\ moves' # <<>>
    /\ moves' # moves \/ (Handled /\ last'.op = "PUT categories reorder")

\* The order key the category id holds in the list cats.
OrderOf(cats, id) == cats[CHOOSE k \in 1..Len(cats) : cats[k].id = id].order

\* C11: a move up of a category that is not first (a move down of one that
\* is not last), made on freshly loaded data, sends a request that the
\* reorder handler answers with success, after which the category and its
\* neighbour hold each other's order key and every other key is unchanged.
C11_MoveExchangesNeighbours ==
    [][LET m == moves'[Len(moves')]
           sorted == SortByOrder(m.before)
           j == IF m.op = "up" THEN m.index - 1 ELSE m.index + 1
       IN  (/\ MoveStep /\ m.fresh
            /\ \/ m.op = "up" /\ m.index > 0
               \/ m.op = "down" /\ m.index >= 0 /\ m.index < Len(sorted) - 1)
           => /\ m.sent /\ last'.status = 200
              /\ Ids(categories') = Ids(categories)
              /\ \A k \in 1..Len(categories') :
                    categories'[k].order =
                        IF categories'[k].id = sorted[m.index + 1].id
                        THEN sorted[j + 1].order
                        ELSE IF categories'[k].id = sorted[j + 1].id
                        THEN sorted[m.index + 1].order
                        ELSE OrderOf(categories, categories'[k].id)]_vars

\* The second of two categories with different keys was moved up on fresh
\* data: the request was answered 400 and the keys are as they were.
C11_Witness ==
    /\ moves # <<>>
    /\ LET m == moves[Len(moves)]
       IN  /\ m.op = "up" /\ m.index = 1 /\ m.fresh /\ m.sent
           /\ SortByOrder(m.before)[1].order # SortByOrder(m.before)[2].order
           /\ m.after = m.before
    /\ last.op = "PUT categories reorder" /\ last.status = 400

\* C12: a move up of the first category and a move down of the last one
\* send no request and leave every order key as it was.
C12_MoveAtEndIsNoOp ==
    [][LET m == moves'[Len(moves')]
       IN  (/\ MoveStep
            /\ \/ m.op = "up" /\ m.index = 0
               \/ m.op = "down" /\ m.index = Len(categoriesCache) - 1)
           => /\ ~m.sent
              /\ served' = served /\ last' = last
              /\ categories' = categories
              /\ categoriesCache' = categoriesCache]_vars

\* Of three categories the first was moved up and then the last moved down:
\* neither call sent a request.
C12_Witness ==
    /\ Len(moves) = 2 /\ Len(categoriesCache) = 3
    /\ moves[1].op = "up" /\ moves[1].index = 0 /\ ~moves[1].sent
    /\ moves[2].op = "down" /\ moves[2].index = 2 /\ ~moves[2].sent
    /\ served = 0

C14_CreateAssignsNextOrder ==
    [][(Handled /\ last'.op = "POST categories" /\ last'.status = 201)
       => /\ Len(categories') = Len(categories) + 1
          /\ SubSeq(categories', 1, Len(categories)) = categories
          /\ categories'[Len(categories')].id = last'.id
          /\ LET new == categories'[Len(categories')]
             IN  /\ categories = <<>> => new.order = 1
                 /\ categories # <<>>
                    => /\ \A i \in 1..Len(categories) : categories[i].order < new.order
                       /\ \E i \in 1..Len(categories) :
                             categories[i].order + 1 = new.order]_vars

\* The body with order 7 created a category that holds the key 3 next to
\* two categories whose largest key is 2.
C14_Witness ==
    /\ last.op = "POST categories" /\ last.status = 201
    /\ Len(categories) = 3
    /\ categories[3].id = last.id
    /\ categories[3].name = "shiv-nagar"
    /\ categories[3].order = 3
    /\ categories[1].order = 2 /\ categories[2].order = 0

\* Records d and e are of one donor: the same trimmed lower-cased name and
\* the same category.
SameDonor(d, e) ==
    /\ ToLower(Trim(d.donorName)) = ToLower(Trim(e.donorName))
    /\ CatId(d) = CatId(e)

\* The records of dons that are of the donor of d, in the order of dons.
RecordsOf(dons, d) == SelectSeq(dons, LAMBDA e : SameDonor(d, e))

\* The amounts of the records added up, a missing amount as 0.
RECURSIVE SumAmounts(_)
SumAmounts(dons) ==
    IF dons = <<>> THEN 0
    ELSE (IF Head(dons).amount = NullNum THEN 0 ELSE Head(dons).amount)
         + SumAmounts(Tail(dons))

\* C15: the records of one donor (trimmed lower-cased name, category) make
\* exactly one aggregate; its name is the trimmed name of the first of them,
\* its total their sum, its history one entry for each of them in input
\* order, equal amounts included.
C15_OneAggregatePerDonor ==
    LET grouped == groupDonationsByName(donationsCache)
    IN  \A j \in 1..Len(donationsCache) :
            LET d == donationsCache[j]
                rs == RecordsOf(donationsCache, d)
                of == {i \in 1..Len(grouped) :
                          /\ ToLower(grouped[i].donorName) = ToLower(Trim(d.donorName))
                          /\ grouped[i].categoryId = d.categoryId}
            IN  /\ Cardinality(of) = 1
                /\ \A i \in of :
                      /\ grouped[i].donorName = Trim(rs[1].donorName)
                      /\ grouped[i].amount = SumAmounts(rs)
                      /\ Len(grouped[i].history) = Len(rs)
                      /\ \A k \in 1..Len(rs) :
                            grouped[i].history[k].amount
                                = (IF rs[k].amount = NullNum THEN 0 ELSE rs[k].amount)

\* Approved records "Ram" and then "ram " of one category, 5 each, were
\* displayed as one aggregate named "Ram" of total 10 with two history
\* entries.
C15_Witness ==
    /\ \E j, k \in 1..Len(donationsCache) :
          /\ j < k
          /\ donationsCache[j].donorName = NameRam
          /\ donationsCache[k].donorName = NameRamBlank
          /\ donationsCache[j].categoryId = donationsCache[k].categoryId
          /\ donationsCache[j].status = "approved" /\ donationsCache[j].amount = 5
          /\ donationsCache[k].status = "approved" /\ donationsCache[k].amount = 5
          /\ Len(RecordsOf(ApprovedOnly(donationsCache), donationsCache[j])) = 2
    /\ \E i \in 1..Len(groupedDonors) :
          /\ groupedDonors[i].donorName = NameRam
          /\ groupedDonors[i].amount = 10
          /\ Len(groupedDonors[i].history) = 2

\* The record d is an approved record of a donor all of whose approved
\* records in the cache have amount 0 or no amount.
ZeroDonor(d) ==
    /\ d.status = "approved"
    /\ \A k \in 1..Len(donationsCache) :
          LET e == donationsCache[k]
          IN  (e.status = "approved" /\ SameDonor(d, e)) => e.amount \in {NullNum, 0}

\* The positions in aggs of the aggregates of the donor of record d.
AggregatesOf(aggs, d) ==
    {i \in 1..Len(aggs) :
        /\ ToLower(aggs[i].donorName) = ToLower(Trim(d.donorName))
        /\ aggs[i].categoryId = d.categoryId}

\* C16: with no search term and no category chosen, a donor whose approved
\* records all have amount 0 or none is displayed as one aggregate of total
\* 0 when the payment status is set to all or to "pledged"; set to "paid",
\* under any term and category, no such donor is displayed and every
\* aggregate displayed has a total > 0.
C16_ZeroIsPledgedNeverPaid ==
    [][\A st \in StatusOptions :
          paymentStatusFilterChange(st) =>
             /\ (st = "paid") =>
                   /\ \A i \in 1..Len(groupedDonors') : groupedDonors'[i].amount > 0
                   /\ \A k \in 1..Len(donationsCache) :
                         ZeroDonor(donationsCache[k])
                            => AggregatesOf(groupedDonors', donationsCache[k]) = {}
             /\ (st # "paid" /\ filters.searchTerm = <<>>
                   /\ filters.categoryFilter = NoId) =>
                   \A k \in 1..Len(donationsCache) :
                       ZeroDonor(donationsCache[k]) =>
                          LET of == AggregatesOf(groupedDonors', donationsCache[k])
                          IN  /\ Cardinality(of) = 1
                              /\ \A i \in of : groupedDonors'[i].amount = 0]_vars

\* The payment status was set to "pledged" with no term and no category,
\* and the view shows, with total 0, the donor whose two approved records
\* have no amount and amount 0.
C16_Witness ==
    /\ filters = [searchTerm |-> <<>>, categoryFilter |-> NoId,
                  statusFilter |-> "pledged"]
    /\ Len(donationsCache) = 2
    /\ SameDonor(donationsCache[1], donationsCache[2])
    /\ donationsCache[1].status = "approved" /\ donationsCache[1].amount = NullNum
    /\ donationsCache[2].status = "approved" /\ donationsCache[2].amount = 0
    /\ Len(groupedDonors) = 1
    /\ groupedDonors[1].amount = 0
    /\ Len(groupedDonors[1].history) = 2

\* C17: typing "shri" into the search box, with no category chosen,
\* displays every donor with an approved record under the name "श्री राम".
C17_ShriMatchesByTransliteration ==
    [][(searchInput(<<"s", "h", "r", "i">>) /\ filters.categoryFilter = NoId) =>
          \A k \in 1..Len(donationsCache) :
              (donationsCache[k].status = "approved"
                  /\ donationsCache[k].donorName = NameShriRam)
                 => AggregatesOf(groupedDonors', donationsCache[k]) # {}]_vars

\* "shri" is in the search box, an approved record of "श्री राम" is in the
\* cache, and the view shows no donor.
C17_Witness ==
    /\ filters.searchTerm = <<"s", "h", "r", "i">>
    /\ filters.categoryFilter = NoId /\ filters.statusFilter = ""
    /\ \E k \in 1..Len(donationsCache) :
          /\ donationsCache[k].status = "approved"
          /\ donationsCache[k].donorName = NameShriRam
    /\ groupedDonors = <<>>

\* Another account than exceptId holds the username in the stored accounts.
HeldByAnother(username, exceptId) ==
    \E i \in 1..Len(subAdmins) :
        subAdmins[i].username = username /\ subAdmins[i].id # exceptId

\* No two stored sub-admin accounts have the same username.
UniqueUsernames ==
    \A i, j \in 1..Len(subAdmins) :
        subAdmins[i].username = subAdmins[j].username => i = j

\* C18: a POST of a sub-admin under a username an account holds, and a PUT
\* that renames an account to a username another account holds, are answered
\* 400 and leave the stored accounts as they were; and at all times no two
\* stored accounts have the same username.
C18_DuplicateUsernameRefused ==
    /\ []UniqueUsernames
    /\ [][/\ \A b \in SubAdminBodies :
                (PostSubAdmins(NoHeaders, b) /\ HeldByAnother(b.username, NoId))
                   => (last'.status = 400 /\ subAdmins' = subAdmins)
          /\ \A id \in SubAdminIds, b \in SubAdminBodies :
                (PutSubAdmin(NoHeaders, id, b) /\ id \in Ids(subAdmins)
                    /\ HeldByAnother(b.username, id))
                   => (last'.status = 400 /\ subAdmins' = subAdmins)]_vars

\* After "sub2" was created next to "sub1", the request to rename "sub1" to
\* "sub2" was refused: both accounts are stored under their names.
C18_Witness ==
    /\ last.op = "PUT subadmin" /\ last.status = 400 /\ last.id = 4
    /\ Len(subAdmins) = 2
    /\ subAdmins[1].id = 4 /\ subAdmins[1].username = "sub1"
    /\ subAdmins[2].username = "sub2"

\* The fields that hold a stored credential.
CredentialFields == {"password", "adminPassword"}

\* C19: the value sent in answer to a request (login, sub-admin and settings
\* routes among them), the user object of a login response, the documents
\* GET /api/subadmins returns and the value GET /api/settings returns have
\* no password and no adminPassword field.
C19_NoCredentialInResponse ==
    /\ last.fields \cap CredentialFields = {}
    /\ DOMAIN last.user \cap CredentialFields = {}
    /\ GetSubAdminsFields \cap CredentialFields = {}
    /\ DOMAIN GetSettings(settings) \cap CredentialFields = {}

\* A sub-admin was created and is stored with its password hash; the 201
\* response carries the account's username and permissions.
C19_Witness ==
    /\ last.op = "POST subadmins" /\ last.status = 201
    /\ {"username", "permissions"} \subseteq last.fields
    /\ \E i \in 1..Len(subAdmins) :
          subAdmins[i].id = last.id /\ subAdmins[i].password = Hash("pw1")

\* The password p is the one stored (hashed) for the account the username u
\* names: the admin's for the admin username, else that of a sub-admin of
\* that username.
MatchesStoredCredential(u, p) ==
    \/ u = adminUsername /\ settings.adminPassword = <<"h", p>>
    \/ \E i \in 1..Len(subAdmins) :
          subAdmins[i].username = u /\ subAdmins[i].password = <<"h", p>>

HasBadWord(content) ==
    \E k \in 1..Len(badWords) : Contains(ToLower(content), badWords[k])

\* No stored post and no stored reply has a word of the list in it.
NoStoredBadWord ==
    \A i \in 1..Len(posts) :
        /\ ~HasBadWord(posts[i].content)
        /\ \A j \in 1..Len(posts[i].replies) : ~HasBadWord(posts[i].replies[j])

\* C21 as stated: a post or reply with a word of the list in it is answered
\* 400 and not stored, and no stored post or reply has such a word.
C21_BadWordAnswered400 ==
    /\ []NoStoredBadWord
    /\ [][/\ \A c \in Contents :
                (PostCommunity(NoHeaders, c) /\ HasBadWord(c))
                   => (last'.status = 400 /\ posts' = posts)
          /\ \A id \in PostIds, c \in Contents :
                (PostCommunityReply(NoHeaders, id, c) /\ HasBadWord(c))
                   => (last'.status = 400 /\ posts' = posts)]_vars

\* C21 as amended: a post or reply with a word of the list in it is not
\* stored and is answered 400 when the community feature is enabled, 403
\* when it is disabled; no stored post or reply has such a word.
C21_BadWordNeverStored ==
    /\ []NoStoredBadWord
    /\ [][/\ \A c \in Contents :
                (PostCommunity(NoHeaders, c) /\ HasBadWord(c))
                   => /\ last'.status = (IF settings.communityEnabled THEN 400 ELSE 403)
                      /\ posts' = posts
          /\ \A id \in PostIds, c \in Contents :
                (PostCommunityReply(NoHeaders, id, c) /\ HasBadWord(c))
                   => /\ last'.status = (IF settings.communityEnabled THEN 400 ELSE 403)
                      /\ posts' = posts]_vars

\* With the feature enabled and a post with a reply stored, a reply "HATE"
\* to that post was answered 400.
C21_Witness ==
    /\ settings.communityEnabled
    /\ last.op = "POST community reply" /\ last.status = 400
    /\ last.content = <<"H", "A", "T", "E">>
    /\ \E i \in 1..Len(posts) : posts[i].id = last.id /\ Len(posts[i].replies) = 1

\* C22: every stored donation names a category that is stored.
C22_ReferentialIntegrity ==
    \A i \in 1..Len(donations) : donations[i].categoryId \in Ids(categories)

\* The donation just created names a category that is not stored.
C22_Witness ==
    /\ last.op = "POST donations" /\ last.status = 201
    /\ \E i \in 1..Len(donations) :
          /\ donations[i].id = last.id
          /\ donations[i].categoryId \notin Ids(categories)

\* C23: no two stored categories have the same order key.
C23_OrderKeysDistinct ==
    \A i, j \in 1..Len(categories) :
        categories[i].order = categories[j].order => i = j

\* The update of a category was answered 200 and left it with the order key
\* of another category.
C23_Witness ==
    /\ last.op = "PUT category" /\ last.status = 200
    /\ \E i, j \in 1..Len(categories) :
          /\ i # j
          /\ categories[i].id = last.id
          /\ categories[i].order = categories[j].order

\* The elements of a sequence.
Range(seq) == {seq[i] : i \in 1..Len(seq)}

\* C24: the donors displayed are the aggregates that pass the search term,
\* the category and the payment status the three inputs hold.
C24_DisplayedPassAllFilters ==
    Range(groupedDonors)
        = Range(renderPublicViewFiltered(donationsCache, categoriesCache,
                                         filters.searchTerm, filters.categoryFilter,
                                         filters.statusFilter))

\* The payment status is set to "paid" and "ram" is in the search box, and
\* a donor of total 0 is displayed.
C24_Witness ==
    /\ filters.statusFilter = "paid"
    /\ filters.searchTerm = <<"r", "a", "m">>
    /\ \E i \in 1..Len(groupedDonors) : groupedDonors[i].amount = 0

\* The largest date value among the records.
MaxDate(rs) ==
    CHOOSE m \in {DateValue(rs[k].date) : k \in 1..Len(rs)} :
        \A k \in 1..Len(rs) : DateValue(rs[k].date) <= m

\* The aggregate of groupDonationsByName(dons) that record d went into.
AggregateOf(dons, d) ==
    LET grouped == groupDonationsByName(dons)
    IN  grouped[CHOOSE i \in 1..Len(grouped) : grouped[i].key = NameKey(d)]

\* C25 as stated: the notes of an aggregate are those of the last of its
\* records in input order, and its date is the largest of their dates.
C25_NotesOfLastRecord ==
    \A j \in 1..Len(donationsCache) :
        LET d == donationsCache[j]
            rs == RecordsOf(donationsCache, d)
            g == AggregateOf(donationsCache, d)
        IN  /\ g.notes = rs[Len(rs)].notes
            /\ DateValue(g.date) = MaxDate(rs)

\* C25: the notes of an aggregate are those of the first of its records in
\* input order, and its date is the largest of their dates.
C25_NotesOfFirstRecord ==
    \A j \in 1..Len(donationsCache) :
        LET d == donationsCache[j]
            rs == RecordsOf(donationsCache, d)
            g == AggregateOf(donationsCache, d)
        IN  /\ g.notes = rs[1].notes
            /\ DateValue(g.date) = MaxDate(rs)

\* Two records of one donor with different notes and dates were grouped and
\* displayed.
C25_Witness ==
    /\ Len(groupedDonors) = 1
    /\ \E j, k \in 1..Len(donationsCache) :
          /\ j < k
          /\ donationsCache[j].notes # donationsCache[k].notes
          /\ donationsCache[j].date # donationsCache[k].date
          /\ donationsCache[j].donorName # donationsCache[k].donorName

\* The amount or the date of the body is missing: null or absent.
MissingAmountOrDate(body) ==
    body.amount \in {AbsentNum, NullNum} \/ body.date \in {AbsentNum, NullNum}

\* C26: a donation submitted by a sub-admin is answered 400 with no record
\* and no log entry created exactly when its amount or its date is missing;
\* otherwise, amount 0 included, it is stored with status pending.
C26_SubAdminRejectedIffMissing ==
    [][\A body \in PostBodies :
          PostDonations(SubHeaders, body)
              => IF MissingAmountOrDate(body)
                 THEN /\ last'.status = 400
                      /\ donations' = donations
                      /\ log' = log
                 ELSE /\ last'.status = 201
                      /\ Len(donations') = Len(donations) + 1
                      /\ donations'[Len(donations')].status = "pending"]_vars

\* A donation submitted by a sub-admin was answered 400.
C26_Witness ==
    /\ last.op = "POST donations"
    /\ last.h = SubHeaders
    /\ last.status = 400

ById ==
    {"PUT donation", "PUT donation approve", "DELETE donation", "PUT category",
     "DELETE category", "PUT subadmin", "DELETE subadmin"}

\* The collection a by-id route looks its document up in.
CollectionOf(op) ==
    IF op \in {"PUT donation", "PUT donation approve", "DELETE donation"} THEN donations
    ELSE IF op \in {"PUT category", "DELETE category"} THEN categories
    ELSE subAdmins

\* C28: an edit, approve or delete request naming a donation, category or
\* sub-admin that does not exist is answered 404 and changes none of the
\* donations, categories, sub-admins and log.
C28_UnknownIdNotFound ==
    [][(Handled /\ last'.op \in ById /\ FindById(CollectionOf(last'.op), last'.id) = 0)
          => /\ last'.status = 404
             /\ UNCHANGED <<donations, categories, subAdmins, log>>]_vars

\* C28, apart from the answer to a delete of a missing category that
\* donations still reference: the request changes nothing, and it is
\* answered 404.
C28_UnknownIdNoEffect ==
    [][(Handled /\ last'.op \in ById /\ FindById(CollectionOf(last'.op), last'.id) = 0)
          => /\ UNCHANGED <<donations, categories, subAdmins, log>>
             /\ last'.status = 404
                  \/ (last'.op = "DELETE category" /\ DonationCount(last'.id) > 0)]_vars

\* A delete of a category that does not exist was answered while a donation
\* references that category.
C28_Witness ==
    /\ last.op = "DELETE category"
    /\ FindById(categories, last.id) = 0
    /\ DonationCount(last.id) > 0

\* The DELETE entries of the log for the entity of this kind and id.
DeleteEntries(entity, id) ==
    {i \in 1..Len(log) :
        log[i].action = "DELETE" /\ log[i].entity = entity /\ log[i].entityId = id}

\* C29: whatever the interleaving of the delete requests, the log holds at
\* most one DELETE entry for an entity, which can be removed only once.
C29_OneDeleteEntryPerEntity ==
    \A i \in 1..Len(log) :
        log[i].action = "DELETE"
            => Cardinality(DeleteEntries(log[i].entity, log[i].entityId)) <= 1

\* Two delete requests for one stored entity were both answered 200.
C29_Witness ==
    /\ inflight = <<>>
    /\ last.status = 200
    /\ Cardinality(DeleteEntries("DONATION", last.id)) = 2

\* The entry the step appended to the log names the session's user: for a
\* sub-admin the kind subadmin and the username, for the admin the kind
\* admin.
LoggedAsCurrentUser ==
    LET e == log'[Len(log')]
    IN  IF currentUser.type = "subadmin"
        THEN e.userType = "subadmin" /\ e.user = currentUser.username
        ELSE e.userType = "admin"

\* C30: the log entry of an action a logged-in user performs through the
\* client records that user's kind, and for a sub-admin the username.
C30_LogNamesActor ==
    [][(/\ currentUser # NoUser
        /\ Len(log') = Len(log) + 1
        /\ \/ \E f \in Forms : handleDonationSubmit(f)
           \/ \E id \in DonationIds : deleteDonation(id))
          => LoggedAsCurrentUser]_vars

\* The sub-admin sub1 is logged in and the donation form was submitted and
\* stored; the log holds the entry of it.
C30_Witness ==
    /\ currentUser.type = "subadmin"
    /\ currentUser.username = "sub1"
    /\ last.op = "POST donations"
    /\ last.status = 201
    /\ log[Len(log)].action = "ADD"
    /\ log[Len(log)].entity = "DONATION"
    /\ log[Len(log)].entityId = last.id
====
